---- MODULE Spec2Model ----
(***************************************************************************)
(* A model of whisper-subtitle-cli: the subtitle codec (subtitle_writer),  *)
(* the translator of segment lists (translator), the Transcriber and the   *)
(* steps of one run of the command (main).                                 *)
(*                                                                         *)
(* Text is modelled character by character: a Python str is a sequence of  *)
(* one-character strings, so that formatting, splitting, stripping and the *)
(* regular expression of parse_srt are computed the way the code computes  *)
(* them.  A time in seconds is a whole number of ticks, TicksPerMs ticks   *)
(* to the millisecond: the arithmetic of _format_timestamp is exact on     *)
(* these values (Python's binary floating point adds a representation      *)
(* error of its own, which this model does not have).                      *)
(***************************************************************************)
EXTENDS Integers, Sequences, FiniteSets, TLC

VARIABLES
    fs,        \* the files on disk: a function from paths to contents
    segments,  \* the segment list the caller holds (List[Dict])
    made,      \* the blocks a file made by hand was put together from
    call,      \* the operation that ran last, with its arguments
    ret,       \* what that operation returned or raised
    frames,    \* the invocations under way: each one's position and locals;
               \* the Transcriber object
    events     \* what the collaborators saw, in order: callbacks and requests

vars == <<fs, segments, made, call, ret, frames, events>>

----------------------------------------------------------------------------
(* Bounds of the model *)

TicksPerMs == 2     \* resolution of a time below the millisecond
MaxSegments == 2    \* longest segment list the caller passes
MaxChunkSize == 3   \* largest segments_per_chunk passed to the splitter
MaxBlocks == 2      \* most candidate blocks in a hand-made SRT file
MaxLines == 3       \* most lines in a hand-made text file

TicksPerSec == 1000 * TicksPerMs

----------------------------------------------------------------------------
(* Python str and list primitives *)

NL == "\n"
SP == " "

DigitChars == <<"0", "1", "2", "3", "4", "5", "6", "7", "8", "9">>

IsDigit(c) == \E d \in 1..10 : DigitChars[d] = c

DigitVal(c) == (CHOOSE d \in 1..10 : DigitChars[d] = c) - 1

\* str.strip() and the regex class \s: the whitespace characters
IsSpace(c) == c \in {" ", "\n", "\t", "\r"}

RECURSIVE Digits(_)
\* str(n) for n >= 0
Digits(n) == IF n < 10 THEN <<DigitChars[n + 1]>>
             ELSE Digits(n \div 10) \o <<DigitChars[(n % 10) + 1]>>

RECURSIVE ZeroFill(_, _)
ZeroFill(s, w) == IF Len(s) >= w THEN s ELSE ZeroFill(<<"0">> \o s, w)

\* f"{n:0wd}": decimal, zero-padded to at least w characters
Pad(n, w) == ZeroFill(Digits(n), w)

RECURSIVE Join(_, _)
\* sep.join(lines)
Join(lines, sep) ==
    IF Len(lines) = 0 THEN <<>>
    ELSE IF Len(lines) = 1 THEN lines[1]
    ELSE lines[1] \o sep \o Join(Tail(lines), sep)

RECURSIVE LStrip(_)
LStrip(s) == IF Len(s) > 0 /\ IsSpace(s[1]) THEN LStrip(Tail(s)) ELSE s

RECURSIVE RStrip(_)
RStrip(s) == IF Len(s) > 0 /\ IsSpace(s[Len(s)])
             THEN RStrip(SubSeq(s, 1, Len(s) - 1)) ELSE s

\* str.strip()
Strip(s) == RStrip(LStrip(s))

RECURSIVE SplitNL(_)
\* s.split('\n'): always at least one piece
SplitNL(s) ==
    IF \A i \in 1..Len(s) : s[i] # NL THEN <<s>>
    ELSE LET i == CHOOSE j \in 1..Len(s) :
                      s[j] = NL /\ \A m \in 1..(j - 1) : s[m] # NL
         IN  <<SubSeq(s, 1, i - 1)>> \o SplitNL(SubSeq(s, i + 1, Len(s)))

\* a splitter that reads its lines with split('\n')
SplitLinesKeepEmpty(s) == SplitNL(s)

\* s.splitlines(): as split('\n'), but an empty string has no line and a
\* final line break opens no further line
SplitLines(s) ==
    IF Len(s) = 0 THEN <<>>
    ELSE IF s[Len(s)] = NL THEN SplitNL(SubSeq(s, 1, Len(s) - 1))
    ELSE SplitNL(s)

RECURSIVE SkipNL(_, _)
\* the first position at or after i that holds no line break
SkipNL(s, i) == IF i <= Len(s) /\ s[i] = NL THEN SkipNL(s, i + 1) ELSE i

RECURSIVE SplitBlocks(_)
\* re.split(r'\n\n+', s): cut at every maximal run of two or more line breaks
SplitBlocks(s) ==
    IF \A i \in 1..(Len(s) - 1) : ~(s[i] = NL /\ s[i + 1] = NL) THEN <<s>>
    ELSE LET i == CHOOSE j \in 1..(Len(s) - 1) :
                      /\ s[j] = NL /\ s[j + 1] = NL
                      /\ \A m \in 1..(j - 1) : ~(s[m] = NL /\ s[m + 1] = NL)
         IN  <<SubSeq(s, 1, i - 1)>>
                 \o SplitBlocks(SubSeq(s, SkipNL(s, i), Len(s)))

----------------------------------------------------------------------------
(* _format_timestamp *)

\* f"{hours:02d}:{minutes:02d}:{secs:02d},{milliseconds:03d}"
FormatFields(hours, minutes, secs, milliseconds) ==
    Pad(hours, 2) \o <<":">> \o Pad(minutes, 2) \o <<":">> \o Pad(secs, 2)
        \o <<",">> \o Pad(milliseconds, 3)

\* a formatter that rounds to the nearest millisecond
MillisecondsRounded(seconds) ==
    ((seconds % TicksPerSec) * 1000 + TicksPerSec \div 2) \div TicksPerSec

\* int((seconds % 1) * 1000)
Milliseconds(seconds) == ((seconds % TicksPerSec) * 1000) \div TicksPerSec

_format_timestamp(seconds) ==
    LET hours == seconds \div (3600 * TicksPerSec)
        minutes == (seconds % (3600 * TicksPerSec)) \div (60 * TicksPerSec)
        secs == (seconds % (60 * TicksPerSec)) \div TicksPerSec
        milliseconds == Milliseconds(seconds)
    IN  FormatFields(hours, minutes, secs, milliseconds)

----------------------------------------------------------------------------
(* The timestamp pattern of parse_srt *)

\* (\d{2}):(\d{2}):(\d{2}),(\d{3}) matches at position p of s
StampAt(s, p) ==
    /\ p >= 1
    /\ p + 11 <= Len(s)
    /\ \A i \in {0, 1, 3, 4, 6, 7, 9, 10, 11} : IsDigit(s[p + i])
    /\ s[p + 2] = ":"
    /\ s[p + 5] = ":"
    /\ s[p + 8] = ","

\* int() of the n digits of s that start at p
IntAt(s, p, n) ==
    LET RECURSIVE Val(_, _)
        Val(i, acc) == IF i = n THEN acc
                       ELSE Val(i + 1, acc * 10 + DigitVal(s[p + i]))
    IN  Val(0, 0)

\* int(h) * 3600 + int(m) * 60 + int(s) + int(ms) / 1000, in ticks
StampSeconds(s, p) ==
    (IntAt(s, p, 2) * 3600 + IntAt(s, p + 3, 2) * 60 + IntAt(s, p + 6, 2))
        * TicksPerSec
    + IntAt(s, p + 9, 3) * TicksPerMs

RECURSIVE SkipSpace(_, _)
\* \s*: the position after the whitespace that starts at p
SkipSpace(s, p) ==
    IF p <= Len(s) /\ IsSpace(s[p]) THEN SkipSpace(s, p + 1) ELSE p

ArrowAt(s, p) ==
    /\ p + 2 <= Len(s)
    /\ s[p] = "-" /\ s[p + 1] = "-" /\ s[p + 2] = ">"

NoMatch == [matched |-> FALSE, start |-> 0, end |-> 0]

\* a pattern that has to match the whole line (re.fullmatch)
FullMatchTimestampLine(line) ==
    IF ~StampAt(line, 1) THEN NoMatch
    ELSE LET a == SkipSpace(line, 13)
         IN  IF ~ArrowAt(line, a) THEN NoMatch
             ELSE LET b == SkipSpace(line, a + 3)
                  IN  IF ~(StampAt(line, b) /\ b + 11 = Len(line)) THEN NoMatch
                      ELSE [matched |-> TRUE,
                            start |-> StampSeconds(line, 1),
                            end |-> StampSeconds(line, b)]

\* re.match(r'(\d{2}):(\d{2}):(\d{2}),(\d{3})\s*-->\s*(\d{2}):...', line)
\* and the two sums of its groups
MatchTimestampLine(line) ==
    IF ~StampAt(line, 1) THEN NoMatch
    ELSE LET a == SkipSpace(line, 13)
         IN  IF ~ArrowAt(line, a) THEN NoMatch
             ELSE LET b == SkipSpace(line, a + 3)
                  IN  IF ~StampAt(line, b) THEN NoMatch
                      ELSE [matched |-> TRUE,
                            start |-> StampSeconds(line, 1),
                            end |-> StampSeconds(line, b)]

Arrow == <<" ", "-", "-", ">", " ">>

\* f"{start_time} --> {end_time}"
TimestampLine(start, end) ==
    _format_timestamp(start) \o Arrow \o _format_timestamp(end)

----------------------------------------------------------------------------
(* What an operation leaves behind *)

NoFiles == [q \in {} |-> <<>>]

NoCall == [op |-> "none", path |-> <<>>, arg |-> 0]

Called(name, path, arg) == [op |-> name, path |-> path, arg |-> arg]

Nothing == [kind |-> "none", val |-> <<>>]
ReturnsNone == [kind |-> "None", val |-> <<>>]
ReturnsStr(s) == [kind |-> "str", val |-> s]
ReturnsSegments(s) == [kind |-> "segments", val |-> s]
ReturnsPaths(s) == [kind |-> "paths", val |-> s]
ReturnsMatch(m) == [kind |-> "match", val |-> m]
Raises(e) == [kind |-> "raise", val |-> e]

\* an exception of class e whose str() is message
RaisesSaying(e, message) == [kind |-> "raise", val |-> e, message |-> message]

\* str(path): the directory, a separator and the file name; the directory and
\* the fixed words of a message stand for their characters
PathStr(path) == <<path[1], "/">> \o path[2]

\* the message of the FileNotFoundError that Path.read_text raises
ReadTextError(path) ==
    <<"[Errno 2] No such file or directory: ", "'">> \o PathStr(path) \o <<"'">>

\* a message that leaves the path out
TimestampedNotFoundUnnamed(path) == <<"Timestamped file not found">>

\* f"Timestamped file not found: {timestamped_txt_path}"
TimestampedNotFound(path) ==
    <<"Timestamped file not found: ">> \o PathStr(path)

----------------------------------------------------------------------------
(* The timestamp codec on its own: every time of TimeInputs is formatted,   *)
(* and the line made of the formatted time is given to parse_srt's pattern. *)

MsOf(h, m, s, ms) == ((h * 3600 + m * 60 + s) * 1000 + ms)

TimeInputs ==
    { MsOf(h, m, s, ms) * TicksPerMs + sub :
        h \in {0, 1, 99, 100}, m \in {0, 1, 59}, s \in {0, 1, 5, 59},
        ms \in {0, 123, 500, 999}, sub \in 0..(TicksPerMs - 1) }

InitTimestamp ==
    /\ fs = NoFiles
    /\ segments = <<>>
    /\ made = <<>>
    /\ call = NoCall
    /\ ret = Nothing
    /\ frames = <<>>
    /\ events = <<>>

\* writer._format_timestamp(seconds)
FormatTimestamp ==
    \E seconds \in TimeInputs :
        /\ call.op = "none"
        /\ call' = Called("_format_timestamp", <<>>, seconds)
        /\ ret' = ReturnsStr(_format_timestamp(seconds))
        /\ UNCHANGED <<fs, segments, made, frames, events>>

\* the pattern of parse_srt applied to the line written for that time
DecodeTimestamp ==
    /\ call.op = "_format_timestamp"
    /\ call' = Called("match", <<>>, call.arg)
    /\ ret' = ReturnsMatch(MatchTimestampLine(ret.val \o Arrow \o ret.val))
    /\ UNCHANGED <<fs, segments, made, frames, events>>

NextTimestamp == FormatTimestamp \/ DecodeTimestamp

SpecTimestamp == InitTimestamp /\ [][NextTimestamp]_vars

\* The number a run of decimal digits denotes
FieldValue(s) == IntAt(s, 1, Len(s))

AllDigits(s) == \A i \in 1..Len(s) : IsDigit(s[i])

\* C6: _format_timestamp(s) is HH:MM:SS,mmm: hours of at least 2 digits (and
\* no more than the number needs), minutes and seconds of 2 digits in 00..59,
\* milliseconds of 3 digits in 000..999, a comma before the milliseconds; the
\* four fields are the floors of the claim, so together they denote s
\* truncated to the millisecond, never rounded up.
C6_FormatIsTruncatedFields ==
    call.op = "_format_timestamp" =>
        LET t == call.arg
            str == ret.val
            L == Len(str)
            hh == SubSeq(str, 1, L - 10)
            mm == SubSeq(str, L - 8, L - 7)
            ss == SubSeq(str, L - 5, L - 4)
            mmm == SubSeq(str, L - 2, L)
        IN  /\ ret.kind = "str"
            /\ L >= 12
            /\ str[L - 9] = ":" /\ str[L - 6] = ":" /\ str[L - 3] = ","
            /\ AllDigits(hh) /\ AllDigits(mm) /\ AllDigits(ss) /\ AllDigits(mmm)
            /\ Len(hh) = 2 \/ hh[1] # "0"
            /\ FieldValue(hh) * (3600 * TicksPerSec) <= t
            /\ t < (FieldValue(hh) + 1) * (3600 * TicksPerSec)
            /\ FieldValue(mm) \in 0..59
            /\ FieldValue(ss) \in 0..59
            /\ FieldValue(mmm) \in 0..999
            /\ LET ms == MsOf(FieldValue(hh), FieldValue(mm), FieldValue(ss),
                              FieldValue(mmm))
               IN  ms * TicksPerMs <= t /\ t < (ms + 1) * TicksPerMs
            /\ t = 0 => str = <<"0", "0", ":", "0", "0", ":", "0", "0", ",",
                                "0", "0", "0">>
            /\ t = MsOf(0, 1, 5, 123) * TicksPerMs =>
                   str = <<"0", "0", ":", "0", "1", ":", "0", "5", ",",
                           "1", "2", "3">>
            /\ t = MsOf(1, 1, 1, 500) * TicksPerMs =>
                   str = <<"0", "1", ":", "0", "1", ":", "0", "1", ",",
                           "5", "0", "0">>

\* C6's case: a time just below a whole hour, with a part below the
\* millisecond, has been formatted
C6_Witness ==
    /\ call.op = "_format_timestamp"
    /\ call.arg = MsOf(1, 59, 59, 999) * TicksPerMs + (TicksPerMs - 1)
    /\ TicksPerMs > 1
    /\ ret.val = <<"0", "1", ":", "5", "9", ":", "5", "9", ",", "9", "9", "9">>

\* C5: for every non-negative time s the string _format_timestamp(s) is
\* accepted by the timestamp pattern of parse_srt and decodes to a d with
\* d <= s < d + 1 ms, whatever the magnitude of s.
C5_TimestampRoundTrip ==
    call.op = "match" =>
        /\ ret.val.matched
        /\ ret.val.start <= call.arg
        /\ call.arg < ret.val.start + TicksPerMs

----------------------------------------------------------------------------
(* Files.  A path is <<directory, file name>>, the name a string.          *)

Exists(path) == path \in DOMAIN fs

\* Path(path).write_text(content): creates the file or replaces its content
WriteText(files, path, content) ==
    [q \in DOMAIN files \cup {path} |->
        IF q = path THEN content ELSE files[q]]

----------------------------------------------------------------------------
(* write_srt and parse_srt *)

Segment(start, end, text) == [start |-> start, end |-> end, text |-> text]

RECURSIVE SrtLines(_, _)
\* the list `lines` of write_srt, from entry i on: number, timestamp line,
\* text and an empty string for each segment
SrtLines(segs, i) ==
    IF i > Len(segs) THEN <<>>
    ELSE <<Digits(i),
           TimestampLine(segs[i].start, segs[i].end),
           segs[i].text,
           <<>>>> \o SrtLines(segs, i + 1)

\* a write_srt that leaves out the empty string after the last segment
SrtContentNoFinalBreak(segs) ==
    IF Len(segs) = 0 THEN <<>>
    ELSE LET lines == SrtLines(segs, 1)
         IN  Join(SubSeq(lines, 1, Len(lines) - 1), <<NL>>)

\* the content write_srt writes
SrtContent(segs) ==
    IF Len(segs) = 0 THEN <<>> ELSE Join(SrtLines(segs, 1), <<NL>>)

\* fewest lines a block of parse_srt needs
MinBlockLines == 3

\* a loop body that takes a block of two lines for a segment without text
ParseBlockTwoLines(block) ==
    LET lines == SplitNL(Strip(block))
    IN  IF Len(lines) < MinBlockLines - 1 THEN <<>>
        ELSE LET match == MatchTimestampLine(lines[2])
             IN  IF match.matched
                 THEN <<Segment(match.start, match.end,
                                Join(SubSeq(lines, 3, Len(lines)), <<NL>>))>>
                 ELSE <<>>

\* a loop body that skips a block whose first line is no number
ParseBlockNumbered(block) ==
    LET lines == SplitNL(Strip(block))
    IN  IF Len(lines) < MinBlockLines
           \/ Len(lines[1]) = 0
           \/ \E i \in 1..Len(lines[1]) : ~IsDigit(lines[1][i])
        THEN <<>>
        ELSE LET match == MatchTimestampLine(lines[2])
             IN  IF match.matched
                 THEN <<Segment(match.start, match.end,
                                Join(SubSeq(lines, 3, Len(lines)), <<NL>>))>>
                 ELSE <<>>

\* the body of parse_srt's loop: the segments (none or one) a block adds
ParseBlock(block) ==
    LET lines == SplitNL(Strip(block))
    IN  IF Len(lines) < MinBlockLines THEN <<>>
        ELSE LET timestamp_line == lines[2]
                 text == Join(SubSeq(lines, 3, Len(lines)), <<NL>>)
                 match == MatchTimestampLine(timestamp_line)
             IN  IF match.matched
                 THEN <<Segment(match.start, match.end, text)>>
                 ELSE <<>>

RECURSIVE ParseBlocks(_)
ParseBlocks(blocks) ==
    IF Len(blocks) = 0 THEN <<>>
    ELSE ParseBlock(blocks[1]) \o ParseBlocks(Tail(blocks))

\* what parse_srt returns for a file of this content
ParseSrtContent(content) == ParseBlocks(SplitBlocks(Strip(content)))

----------------------------------------------------------------------------
(* The SRT codec: the caller writes its segments with write_srt, parses    *)
(* files with parse_srt and may write a parsed list again.  The files are  *)
(* those write_srt made and SRT files made by hand out of RawBlocks.       *)

\* times as the transcriber reports them, whole milliseconds: the sample
\* times of the tests, and one beyond 100 hours
T0 == MsOf(0, 0, 0, 0) * TicksPerMs
T1 == MsOf(0, 0, 2, 500) * TicksPerMs
T2 == MsOf(0, 0, 8, 300) * TicksPerMs
T3 == MsOf(100, 0, 1, 0) * TicksPerMs

\* texts as the transcriber hands them over, stripped of outer whitespace:
\* one line, two lines, two lines around an empty one, and no text at all
Texts ==
    { <<"a">>,
      <<"a", NL, "b">>,
      <<"a", NL, NL, "b">>,
      <<>> }

RECURSIVE ListsUpTo(_, _)
\* the lists of at most n elements of S
ListsUpTo(S, n) ==
    IF n = 0 THEN {<<>>}
    ELSE LET shorter == ListsUpTo(S, n - 1)
         IN  shorter \cup {<<x>> \o l : x \in S, l \in {m \in shorter : Len(m) = n - 1}}

SegmentLists ==
    ListsUpTo({ Segment(tp[1], tp[2], text) :
                  tp \in {<<T0, T1>>, <<T1, T2>>, <<T2, T3>>}, text \in Texts },
              MaxSegments)

SrtA == <<"out", <<"a", ".", "s", "r", "t">>>>
SrtB == <<"out", <<"b", ".", "s", "r", "t">>>>
RawSrt == <<"in", <<"r", ".", "s", "r", "t">>>>

GoodLine == FormatFields(0, 0, 1, 0) \o Arrow \o FormatFields(0, 0, 2, 500)
GoodStart == MsOf(0, 0, 1, 0) * TicksPerMs
GoodEnd == MsOf(0, 0, 2, 500) * TicksPerMs

\* A candidate block of a hand-made file: its characters, and the segments
\* (none or one) a reader of the SRT format as parse_srt defines it takes
\* from it.
Block(lines, segs) == [raw |-> Join(lines, <<NL>>), segs |-> segs]

RawBlocks ==
    { \* well formed, one line of text
      Block(<<Digits(1), GoodLine, <<"a">>>>,
            <<Segment(GoodStart, GoodEnd, <<"a">>)>>),
      \* well formed, two lines of text, a first line that is no number
      Block(<<<<"x">>, GoodLine, <<"a">>, <<"b">>>>,
            <<Segment(GoodStart, GoodEnd, <<"a", NL, "b">>)>>),
      \* two lines only
      Block(<<Digits(2), GoodLine>>, <<>>),
      \* one line only
      Block(<<<<"z", "z">>>>, <<>>),
      \* a period before the milliseconds
      Block(<<Digits(3),
              <<"0", "0", ":", "0", "0", ":", "0", "1", ".", "0", "0", "0">>
                  \o Arrow \o FormatFields(0, 0, 2, 500),
              <<"b">>>>, <<>>),
      \* hours of three digits
      Block(<<Digits(4),
              FormatFields(100, 0, 0, 0) \o Arrow \o FormatFields(100, 0, 1, 0),
              <<"c">>>>, <<>>),
      \* hours of one digit
      Block(<<Digits(5),
              Tail(FormatFields(0, 0, 1, 0)) \o Arrow \o FormatFields(0, 0, 2, 0),
              <<"d">>>>, <<>>),
      \* text before the first timestamp
      Block(<<Digits(6), <<"x">> \o GoodLine, <<"e">>>>, <<>>),
      \* no arrow
      Block(<<Digits(7),
              FormatFields(0, 0, 1, 0) \o <<SP>> \o FormatFields(0, 0, 2, 500),
              <<"f">>>>, <<>>),
      \* no space around the arrow
      Block(<<Digits(8),
              FormatFields(0, 0, 1, 0) \o <<"-", "-", ">">>
                  \o FormatFields(0, 0, 2, 500),
              <<"g">>>>,
            <<Segment(GoodStart, GoodEnd, <<"g">>)>>),
      \* a tab and a space before the arrow
      Block(<<Digits(8),
              FormatFields(0, 0, 1, 0) \o <<"\t", SP, "-", "-", ">">>
                  \o FormatFields(0, 0, 2, 500),
              <<"g">>>>,
            <<Segment(GoodStart, GoodEnd, <<"g">>)>>),
      \* a fourth digit after the milliseconds of the second timestamp
      Block(<<Digits(9), GoodLine \o <<"0">>, <<"h">>>>,
            <<Segment(GoodStart, GoodEnd, <<"h">>)>>),
      \* fields beyond 59
      Block(<<Digits(10),
              FormatFields(99, 99, 99, 999) \o Arrow \o FormatFields(0, 0, 0, 0),
              <<"i">>>>,
            <<Segment(MsOf(99, 99, 99, 999) * TicksPerMs, 0, <<"i">>)>>) }

BlockLists == ListsUpTo(RawBlocks, MaxBlocks) \ {<<>>}

\* how the blocks lie in a file: the run of line breaks between two blocks,
\* and what follows the last block
FileLayouts == { <<<<NL, NL>>, <<>>>>, <<<<NL, NL, NL>>, <<NL>>>> }

RawOf(blocks) == [i \in 1..Len(blocks) |-> blocks[i].raw]

RECURSIVE SegmentsOf(_)
SegmentsOf(blocks) ==
    IF Len(blocks) = 0 THEN <<>>
    ELSE blocks[1].segs \o SegmentsOf(Tail(blocks))

\* a hand-made file: the blocks, one separator between them, and a tail
RawFile(blocks, sep, tail) == Join(RawOf(blocks), sep) \o tail

InitSrt ==
    /\ call = NoCall
    /\ ret = Nothing
    /\ frames = <<>>
    /\ events = <<>>
    /\ \/ /\ segments \in SegmentLists
          /\ made = <<>>
          /\ fs = NoFiles
       \/ /\ segments = <<>>
          /\ made \in BlockLists
          /\ \E layout \in FileLayouts :
                 fs = WriteText(NoFiles, RawSrt,
                                RawFile(made, layout[1], layout[2]))

\* what the caller writes with write_srt: its own list to one file, or the
\* list the last parse_srt returned to a second file
Writable ==
    {<<segments, SrtA>>}
        \cup (IF ret.kind = "segments" THEN {<<ret.val, SrtB>>} ELSE {})

\* writer.write_srt(segs, output_path)
WriteSrt ==
    \E w \in Writable :
        /\ fs' = WriteText(fs, w[2], SrtContent(w[1]))
        /\ call' = Called("write_srt", w[2], w[1])
        /\ ret' = ReturnsNone
        /\ UNCHANGED <<segments, made, frames, events>>

\* SubtitleWriter.parse_srt(srt_path)
ParseSrt ==
    \E srt_path \in {SrtA, SrtB, RawSrt} :
        /\ call' = Called("parse_srt", srt_path, 0)
        /\ ret' = IF Exists(srt_path)
                  THEN ReturnsSegments(ParseSrtContent(fs[srt_path]))
                  ELSE RaisesSaying("FileNotFoundError",
                                    ReadTextError(srt_path))
        /\ UNCHANGED <<fs, segments, made, frames, events>>

NextSrt == WriteSrt \/ ParseSrt

SpecSrt == InitSrt /\ [][NextSrt]_vars

\* a line is blank when it holds nothing but whitespace
HasBlankLine(text) ==
    LET lines == SplitNL(text)
    IN  \E i \in 1..Len(lines) : \A j \in 1..Len(lines[i]) : IsSpace(lines[i][j])

\* the file at path holds what write_srt(segs) writes
WrittenFrom(path, segs) == Exists(path) /\ fs[path] = SrtContent(segs)

\* C1: for every segment list S of at least one segment whose texts hold no
\* blank line, parse_srt of the file write_srt(S) wrote returns S: as many
\* segments, in the same order, each with the start, end and text of S.
C1_RoundTrip ==
    ( /\ call.op = "parse_srt"
      /\ Len(segments) >= 1
      /\ \A i \in 1..Len(segments) : ~HasBlankLine(segments[i].text)
      /\ WrittenFrom(call.path, segments) )
    => (ret.kind = "segments" /\ ret.val = segments)

\* block i of an SRT file: the number i, the timestamp line, the text
SrtBlock(segs, i) ==
    Digits(i) \o <<NL>> \o _format_timestamp(segs[i].start) \o Arrow
        \o _format_timestamp(segs[i].end) \o <<NL>> \o segs[i].text

\* C7: for N >= 1 segments write_srt emits N blocks in input order, block i
\* being the number i on a line, the line '<start> --> <end>' and the text
\* verbatim; one blank line (two line breaks) stands between consecutive
\* blocks, and after the text of the last segment comes the line break
\* that ends it and nothing else: no blank block.
C7_SrtWriteFormat ==
    (call.op = "write_srt" /\ Len(call.arg) >= 1) =>
        LET segs == call.arg
            N == Len(segs)
            content == fs[call.path]
        IN  /\ Exists(call.path)
            /\ content = Join([i \in 1..N |-> SrtBlock(segs, i)], <<NL, NL>>)
                             \o <<NL>>
            /\ \A i \in 1..N : FieldValue(Digits(i)) = i /\ Digits(i)[1] # "0"
            /\ segs = <<Segment(T0, T1, <<"a">>)>> =>
                   content = <<"1", NL>>
                       \o <<"0", "0", ":", "0", "0", ":", "0", "0", ",", "0", "0", "0">>
                       \o <<" ", "-", "-", ">", " ">>
                       \o <<"0", "0", ":", "0", "0", ":", "0", "2", ",", "5", "0", "0">>
                       \o <<NL, "a", NL>>

\* C7's case: a list of MaxSegments segments, one of them with a text of two
\* lines, has been written
C7_Witness ==
    /\ call.op = "write_srt"
    /\ Len(call.arg) = MaxSegments
    /\ call.arg[1].text = <<"a", NL, "b">>
    /\ Exists(call.path)
    /\ Len(fs[call.path]) > 0

ShortBlock == Block(<<Digits(2), GoodLine>>, <<>>)
GoodBlock == Block(<<Digits(1), GoodLine, <<"a">>>>,
                   <<Segment(GoodStart, GoodEnd, <<"a">>)>>)

ShapeAt(line, p) ==
    /\ p >= 1 /\ p + 11 <= Len(line)
    /\ AllDigits(SubSeq(line, p, p + 1)) /\ line[p + 2] = ":"
    /\ AllDigits(SubSeq(line, p + 3, p + 4)) /\ line[p + 5] = ":"
    /\ AllDigits(SubSeq(line, p + 6, p + 7)) /\ line[p + 8] = ","
    /\ AllDigits(SubSeq(line, p + 9, p + 11))

\* h*3600 + m*60 + s + ms/1000 of the timestamp at position p, in ticks
ValueAt(line, p) ==
    MsOf(FieldValue(SubSeq(line, p, p + 1)), FieldValue(SubSeq(line, p + 3, p + 4)),
         FieldValue(SubSeq(line, p + 6, p + 7)), FieldValue(SubSeq(line, p + 9, p + 11)))
        * TicksPerMs

\* line is: a timestamp, whitespace or none, the arrow, whitespace or none,
\* a timestamp at position b, and then the characters from b + 12 on
PairAt(line, b) ==
    /\ ShapeAt(line, 1) /\ ShapeAt(line, b)
    /\ \E a \in 13..(b - 3) :
          /\ SubSeq(line, a, a + 2) = <<"-", "-", ">">>
          /\ \A i \in (13..(a - 1)) \cup ((a + 3)..(b - 1)) : IsSpace(line[i])

\* the second lines a reader accepts, b the place of the second timestamp:
\* the pair of timestamps, with nothing after it when `whole`
Accepts(line, b, whole) == PairAt(line, b) /\ (whole => b + 11 = Len(line))

\* the segments (none or one) such a reader takes from a block
ReadBlock(raw, whole) ==
    LET lines == SplitNL(raw)
    IN  IF Len(lines) >= 3
           /\ \E b \in 1..Len(lines[2]) : Accepts(lines[2], b, whole)
        THEN LET b == CHOOSE c \in 1..Len(lines[2]) : Accepts(lines[2], c, whole)
             IN  <<Segment(ValueAt(lines[2], 1), ValueAt(lines[2], b),
                           Join(SubSeq(lines, 3, Len(lines)), <<NL>>))>>
        ELSE <<>>

RECURSIVE ReadBlocks(_, _)
ReadBlocks(blocks, whole) ==
    IF Len(blocks) = 0 THEN <<>>
    ELSE ReadBlock(blocks[1].raw, whole) \o ReadBlocks(Tail(blocks), whole)

\* parse_srt of a hand-made file returns what such a reader takes from its
\* blocks
ParsedAs(whole) ==
    (call.op = "parse_srt" /\ call.path = RawSrt /\ Exists(RawSrt)) =>
        (ret.kind = "segments" /\ ret.val = ReadBlocks(made, whole))

\* C9 as stated: a block of at least 3 lines contributes a segment if and
\* only if its second line is HH:MM:SS,mmm --> HH:MM:SS,mmm, of 2, 2, 2 and
\* 3 digits on each side of the arrow; any other second line makes the block
\* skipped; start and end are h*3600 + m*60 + s + ms/1000 of each side.
C9_OnlyExactTimestampLine == ParsedAs(TRUE)

\* C9 amended: the block contributes a segment if and only if its second
\* line begins with HH:MM:SS,mmm, whitespace or none, -->, whitespace or
\* none, HH:MM:SS,mmm; what follows the second timestamp on the line is
\* ignored; any other second line makes the block skipped; start and end
\* are h*3600 + m*60 + s + ms/1000 of each side.
C9_TimestampLinePrefix == ParsedAs(FALSE)

\* C9's case: a file of two blocks has been parsed, the first with a fourth
\* digit after its second timestamp, the second with a period for a comma
C9_Witness ==
    /\ call.op = "parse_srt"
    /\ call.path = RawSrt
    /\ ret.kind = "segments"
    /\ Len(ret.val) = 1
    /\ Len(made) = 2
    /\ fs[RawSrt] = RawFile(made, <<NL, NL>>, <<>>)
    /\ Len(SplitNL(made[1].raw)) = 3 /\ Len(SplitNL(made[2].raw)) = 3
    /\ SplitNL(made[1].raw)[2] = GoodLine \o <<"0">>
    /\ SplitNL(made[2].raw)[2][9] = "."
    /\ ret.val[1].end = GoodEnd

\* first lines of a block: numbers out of order, text, a number after a
\* space, a timestamp line
FirstLines == { <<"9">>, <<"x">>, <<" ", "7">>, GoodLine }

\* the block with its first line replaced
WithFirstLine(block, line) ==
    LET lines == SplitNL(block.raw)
    IN  [raw |-> Join(<<line>> \o Tail(lines), <<NL>>), segs |-> block.segs]

\* the blocks with the first line of block i, or of every block when i = 0,
\* replaced
Renumbered(blocks, i, line) ==
    [j \in 1..Len(blocks) |->
        IF i = 0 \/ i = j THEN WithFirstLine(blocks[j], line) ELSE blocks[j]]

\* the layout of the hand-made file
LayoutOf(content) ==
    CHOOSE layout \in FileLayouts : content = RawFile(made, layout[1], layout[2])

\* C16: two SRT files that differ only in the first line of their blocks
\* (any non-blank single line: wrong numbers, repeated numbers, text) are
\* parsed to the same segments: parse_srt of the hand-made file returns what
\* it returns for the file with the first line of its first block, or of
\* every block, replaced by another line.
C16_FirstLineIgnored ==
    (call.op = "parse_srt" /\ call.path = RawSrt /\ Exists(RawSrt)) =>
        LET layout == LayoutOf(fs[RawSrt])
        IN  /\ ret.kind = "segments"
            /\ \A i \in {0, 1}, line \in FirstLines :
                  ParseSrtContent(RawFile(Renumbered(made, i, line),
                                          layout[1], layout[2])) = ret.val

\* C16's case: a file of two well-formed blocks, the first numbered 1 and the
\* second with a first line that is no number, has been parsed to two
\* segments
C16_Witness ==
    /\ call.op = "parse_srt"
    /\ call.path = RawSrt
    /\ ret.kind = "segments"
    /\ Len(made) = 2
    /\ Len(ret.val) = 2
    /\ SplitNL(made[1].raw)[1] = <<"1">>
    /\ SplitNL(made[2].raw)[1] = <<"x">>

\* C17: for every segment list S of at least one segment whose texts hold no
\* blank line, write_srt of S to a file A, parse_srt of A and write_srt of
\* the parsed list to a file B leave B with the content of A.
C17_WriteStableUnderReparse ==
    ( /\ call.op = "write_srt"
      /\ call.path = SrtB
      /\ Len(segments) >= 1
      /\ \A i \in 1..Len(segments) : ~HasBlankLine(segments[i].text)
      /\ WrittenFrom(SrtA, segments)
      /\ call.arg = ParseSrtContent(fs[SrtA]) )
    => (Exists(SrtB) /\ fs[SrtB] = fs[SrtA])

----------------------------------------------------------------------------
(* write_timestamped_txt and split_timestamped_txt *)

RECURSIVE TimestampedLines(_)
\* the list `lines` of write_timestamped_txt
TimestampedLines(segs) ==
    IF Len(segs) = 0 THEN <<>>
    ELSE << <<"[">> \o TimestampLine(segs[1].start, segs[1].end)
                \o <<"]", SP>> \o segs[1].text >>
             \o TimestampedLines(Tail(segs))

\* the content write_timestamped_txt writes
TimestampedContent(segs) ==
    IF Len(segs) = 0 THEN <<>> ELSE Join(TimestampedLines(segs), <<NL>>)

RECURSIVE LastDot(_, _)
\* name.rfind('.'), counted from 1; 0 when there is no dot
LastDot(name, i) ==
    IF i = 0 THEN 0 ELSE IF name[i] = "." THEN i ELSE LastDot(name, i - 1)

\* Path.stem: the name without its last suffix; a dot that opens or ends the
\* name starts no suffix
Stem(name) ==
    LET i == LastDot(name, Len(name))
    IN  IF 1 < i /\ i < Len(name) THEN SubSeq(name, 1, i - 1) ELSE name

\* s.endswith(suffix)
EndsWith(s, suffix) ==
    /\ Len(s) >= Len(suffix)
    /\ SubSeq(s, Len(s) - Len(suffix) + 1, Len(s)) = suffix

DotTimestamped ==
    <<".", "t", "i", "m", "e", "s", "t", "a", "m", "p", "e", "d">>

\* a base name that keeps a '.timestamped' at its end
BaseNameStemOnly(name) == Stem(name)

\* base_name of split_timestamped_txt
BaseName(name) ==
    LET base_name == Stem(name)
    IN  IF EndsWith(base_name, DotTimestamped)
        THEN SubSeq(base_name, 1, Len(base_name) - Len(DotTimestamped))
        ELSE base_name

\* f"{base_name}.timestamped.chunk{chunk_num:03d}of{total_chunks:03d}.txt"
ChunkFileName(base_name, chunk_num, total_chunks) ==
    base_name \o DotTimestamped \o <<".", "c", "h", "u", "n", "k">>
        \o Pad(chunk_num, 3) \o <<"o", "f">>
        \o Pad(total_chunks, 3) \o <<".", "t", "x", "t">>

\* a ceiling that takes the chunk size by its magnitude
CeilMagnitude(n, k) ==
    IF k > 0 THEN (n + k - 1) \div k ELSE (n - k - 1) \div (0 - k)

\* math.ceil(n / k) for n >= 0 and k # 0
Ceil(n, k) ==
    IF k > 0 THEN (n + k - 1) \div k ELSE 0 - (n \div (0 - k))

\* lines[start_idx:end_idx] of the loop's round chunk_idx
ChunkLines(lines, chunk_idx, segments_per_chunk) ==
    LET start_idx == chunk_idx * segments_per_chunk
        stop == (chunk_idx + 1) * segments_per_chunk
        end_idx == IF stop <= Len(lines) THEN stop ELSE Len(lines)
    IN  SubSeq(lines, start_idx + 1, end_idx)

\* a loop that names the chunks by chunk_idx, from 0
ChunkPathFromZero(path, chunk_idx, total_chunks) ==
    <<path[1], ChunkFileName(BaseName(path[2]), chunk_idx, total_chunks)>>

\* a loop that writes the chunks into the working directory
ChunkPathNoDir(path, chunk_idx, total_chunks) ==
    <<".", ChunkFileName(BaseName(path[2]), chunk_idx + 1, total_chunks)>>

\* chunk_path of the loop's round chunk_idx
ChunkPath(path, chunk_idx, total_chunks) ==
    <<path[1], ChunkFileName(BaseName(path[2]), chunk_idx + 1, total_chunks)>>

RECURSIVE WriteChunks(_, _, _, _, _, _)
\* the files after the rounds chunk_idx .. total_chunks - 1 of the loop
WriteChunks(files, path, lines, segments_per_chunk, total_chunks, chunk_idx) ==
    IF chunk_idx >= total_chunks THEN files
    ELSE WriteChunks(
             WriteText(files, ChunkPath(path, chunk_idx, total_chunks),
                       Join(ChunkLines(lines, chunk_idx, segments_per_chunk),
                            <<NL>>)),
             path, lines, segments_per_chunk, total_chunks, chunk_idx + 1)

\* a list of chunk files that leaves out the path of the last round
ChunkFilesButLast(path, total_chunks) ==
    IF total_chunks <= 1 THEN <<>>
    ELSE [i \in 1..(total_chunks - 1) |-> ChunkPath(path, i - 1, total_chunks)]

\* chunk_files: the paths of the rounds 0 .. total_chunks - 1
ChunkFiles(path, total_chunks) ==
    IF total_chunks <= 0 THEN <<>>
    ELSE [i \in 1..total_chunks |-> ChunkPath(path, i - 1, total_chunks)]

----------------------------------------------------------------------------
(* The splitter: the caller writes its segments with write_timestamped_txt *)
(* and splits that file, or a text file made by hand, into chunks.         *)

TimestampedPath ==
    <<"out", <<"v">> \o DotTimestamped \o <<".", "t", "x", "t">>>>
TextPath == <<"in", <<"n", ".", "t", "x", "t">>>>

\* the lines of a hand-made file: two that differ, and the empty line
LineLists == ListsUpTo({ <<"x">>, <<"y">>, <<>> }, MaxLines) \ {<<>>}

\* the segments the caller writes before it splits: every text, and a
\* segment beyond 100 hours
SplitSegmentLists ==
    ListsUpTo({ Segment(T0, T1, text) : text \in Texts }
                  \cup { Segment(T2, T3, <<"a">>) },
              MaxSegments)

\* values of segments_per_chunk
ChunkSizes == (0 - 1)..MaxChunkSize

InitSplit ==
    /\ call = NoCall
    /\ ret = Nothing
    /\ frames = <<>>
    /\ events = <<>>
    /\ made = <<>>
    /\ \/ /\ segments \in SplitSegmentLists
          /\ fs = NoFiles
       \/ /\ segments = <<>>
          /\ \E lines \in LineLists, tail \in {<<>>, <<NL>>} :
                 fs = WriteText(NoFiles, TextPath, Join(lines, <<NL>>) \o tail)

\* writer.write_timestamped_txt(segments, output_path)
WriteTimestampedTxt ==
    /\ fs' = WriteText(fs, TimestampedPath, TimestampedContent(segments))
    /\ call' = Called("write_timestamped_txt", TimestampedPath, segments)
    /\ ret' = ReturnsNone
    /\ UNCHANGED <<segments, made, frames, events>>

\* the body of split_timestamped_txt, from its first line to its return
SplitCall(timestamped_txt_path, segments_per_chunk) ==
    /\ call' = Called("split_timestamped_txt", timestamped_txt_path,
                      segments_per_chunk)
    /\ UNCHANGED <<segments, made, frames, events>>
    /\ IF ~Exists(timestamped_txt_path)
       THEN /\ ret' = RaisesSaying("FileNotFoundError",
                                 TimestampedNotFound(timestamped_txt_path))
            /\ UNCHANGED fs
       ELSE LET lines == SplitLines(fs[timestamped_txt_path])
            IN  IF Len(lines) = 0
                THEN ret' = ReturnsPaths(<<>>) /\ UNCHANGED fs
                ELSE IF segments_per_chunk = 0
                THEN ret' = Raises("ZeroDivisionError") /\ UNCHANGED fs
                ELSE LET total_chunks == Ceil(Len(lines), segments_per_chunk)
                     IN  /\ fs' = WriteChunks(fs, timestamped_txt_path, lines,
                                              segments_per_chunk, total_chunks, 0)
                         /\ ret' = ReturnsPaths(
                                ChunkFiles(timestamped_txt_path, total_chunks))

\* writer.split_timestamped_txt(timestamped_txt_path, segments_per_chunk)
SplitTimestampedTxt ==
    \E timestamped_txt_path \in {TimestampedPath, TextPath},
       segments_per_chunk \in ChunkSizes :
        SplitCall(timestamped_txt_path, segments_per_chunk)

NextSplit == WriteTimestampedTxt \/ SplitTimestampedTxt

SpecSplit == InitSplit /\ [][NextSplit]_vars

\* the lines of the file at path, as splitlines() reads them
LinesOf(path) == SplitLines(fs[path])

RECURSIVE LinesOfAll(_)
\* the lines of the files at paths, one file after the other
LinesOfAll(paths) ==
    IF Len(paths) = 0 THEN <<>>
    ELSE LinesOf(paths[1]) \o LinesOfAll(Tail(paths))

\* split_timestamped_txt ran last, on a file of at least one line and with a
\* positive segments_per_chunk
SplitRan ==
    /\ call.op = "split_timestamped_txt"
    /\ Exists(call.path)
    /\ Len(LinesOf(call.path)) >= 1
    /\ call.arg > 0

\* C2: for an input file of n >= 1 lines and a positive segments_per_chunk,
\* the lines of the chunk files, read back in the order of the returned
\* paths, are exactly the lines of the input file, in their order; so the
\* chunk line counts add up to n.
C2_ChunksPartitionLines ==
    SplitRan =>
        /\ ret.kind = "paths"
        /\ \A i \in 1..Len(ret.val) : Exists(ret.val[i])
        /\ LinesOfAll(ret.val) = LinesOf(call.path)

\* C3: for n >= 1 lines and a positive k the call returns ceil(n / k) paths;
\* every chunk but the last holds k lines, the last holds n mod k lines when
\* k does not divide n and k lines when it does.
C3_ChunkCountAndSizes ==
    SplitRan =>
        LET n == Len(LinesOf(call.path))
            k == call.arg
            total == Len(ret.val)
        IN  /\ ret.kind = "paths"
            /\ total * k >= n /\ (total - 1) * k < n
            /\ \A i \in 1..total : Exists(ret.val[i])
            /\ \A i \in 1..(total - 1) : Len(LinesOf(ret.val[i])) = k
            /\ Len(LinesOf(ret.val[total])) = IF n % k = 0 THEN k ELSE n % k

\* n < 1000 in three decimal digits
ThreeDigits(n) ==
    <<DigitChars[((n \div 100) % 10) + 1], DigitChars[((n \div 10) % 10) + 1],
      DigitChars[(n % 10) + 1]>>

\* <base>.timestamped.chunk<k>of<total>.txt
ChunkNamed(base, k, total) ==
    base \o <<".", "t", "i", "m", "e", "s", "t", "a", "m", "p", "e", "d",
              ".", "c", "h", "u", "n", "k">>
         \o ThreeDigits(k) \o <<"o", "f">> \o ThreeDigits(total)
         \o <<".", "t", "x", "t">>

\* C4: chunk number k = 1..total is written in the directory of the input
\* file under the name <baseName>.timestamped.chunk<k>of<total>.txt, k and
\* total zero-padded to 3 digits; the returned list holds these paths in
\* increasing k, every name of one call carries the same total, and the
\* names of one call differ from one another.
C4_ChunkFileNames ==
    SplitRan =>
        LET total == Len(ret.val)
            base == BaseName(call.path[2])
        IN  /\ ret.kind = "paths"
            /\ total >= 1
            /\ \A k \in 1..total :
                  /\ ret.val[k] = <<call.path[1], ChunkNamed(base, k, total)>>
                  /\ Exists(ret.val[k])
            /\ \A j, k \in 1..total : j # k => ret.val[j] # ret.val[k]
            /\ call.path = TextPath => base = <<"n">>
            /\ call.path = TimestampedPath => base = <<"v">>

\* C4's case: a file of MaxLines lines made by hand has been split into
\* MaxLines chunks
C4_Witness ==
    /\ SplitRan
    /\ call.path = TextPath
    /\ call.arg = 1
    /\ Len(ret.val) = MaxLines
    /\ ret.val[MaxLines][1] = "in"
    /\ Exists(ret.val[MaxLines])

\* C10: for N >= 1 segments write_timestamped_txt writes a file of exactly N
\* lines, line i being '[<start_i> --> <end_i>] <text_i>'; so the splitter
\* reads as many lines from the file as there are segments, each beginning
\* with a bracketed pair of timestamps.
C10_OneLinePerSegment ==
    (call.op = "write_timestamped_txt" /\ Len(call.arg) >= 1) =>
        LET segs == call.arg
            lines == LinesOf(call.path)
        IN  /\ Exists(call.path)
            /\ Len(lines) = Len(segs)
            /\ \A i \in 1..Len(segs) :
                  lines[i] = <<"[">> \o _format_timestamp(segs[i].start)
                                 \o <<" ", "-", "-", ">", " ">>
                                 \o _format_timestamp(segs[i].end)
                                 \o <<"]", " ">> \o segs[i].text

\* C14: split_timestamped_txt on an existing file that has zero lines
\* returns an empty list, writes no chunk file (the files stay as they were)
\* and raises no error, whatever segments_per_chunk is.
C14_EmptySplitInput ==
    [][ ( /\ call'.op = "split_timestamped_txt"
          /\ Exists(call'.path)
          /\ Len(fs[call'.path]) = 0 )
        => (ret' = ReturnsPaths(<<>>) /\ fs' = fs) ]_vars

\* C14's case: the file write_timestamped_txt made of an empty list has been
\* split with a segments_per_chunk of 0
C14_Witness ==
    /\ call.op = "split_timestamped_txt"
    /\ call.path = TimestampedPath
    /\ call.arg = 0
    /\ segments = <<>>
    /\ Exists(TimestampedPath)
    /\ fs[TimestampedPath] = <<>>
    /\ ret = ReturnsPaths(<<>>)

\* the paths a call returned, as a set
PathsOf(r) ==
    IF r.kind = "paths" THEN { r.val[i] : i \in 1..Len(r.val) } ELSE {}

\* the files that differ between two file systems: created, deleted or of
\* another content
Touched(before, after) ==
    { p \in DOMAIN before \cup DOMAIN after :
        \/ p \notin DOMAIN before
        \/ p \notin DOMAIN after
        \/ before[p] # after[p] }

\* C23: a call of split_timestamped_txt creates or overwrites only the files
\* whose paths it returns; no returned path is the input path, so the input
\* file keeps its content over every split call; no other file (a chunk an
\* earlier split of the same input left under another total included) is
\* changed or deleted.
C23_SplitFrame ==
    [][ call'.op = "split_timestamped_txt" =>
          /\ Touched(fs, fs') \subseteq PathsOf(ret')
          /\ PathsOf(ret') \subseteq DOMAIN fs'
          /\ DOMAIN fs \subseteq DOMAIN fs'
          /\ call'.path \notin PathsOf(ret')
          /\ Exists(call'.path) =>
                 (call'.path \in DOMAIN fs' /\ fs'[call'.path] = fs[call'.path])
      ]_vars

\* C23's case: the hand-made file of MaxLines lines has been split into one
\* chunk while the MaxLines chunks of an earlier split are still there, the
\* last of them with the last line, and the input still ends with that line
C23_Witness ==
    /\ call.op = "split_timestamped_txt"
    /\ call.path = TextPath
    /\ ret.kind = "paths"
    /\ Len(ret.val) = 1
    /\ Exists(TextPath)
    /\ Len(LinesOf(TextPath)) = MaxLines
    /\ Exists(ChunkPath(TextPath, MaxLines - 1, MaxLines))
    /\ fs[ChunkPath(TextPath, MaxLines - 1, MaxLines)] = LinesOf(TextPath)[MaxLines]
    /\ Exists(ret.val[1])
    /\ fs[ret.val[1]] # fs[ChunkPath(TextPath, MaxLines - 1, MaxLines)]

\* C24: on an input file that is not empty, split_timestamped_txt with a
\* segments_per_chunk of 0 raises an error and with a negative
\* segments_per_chunk returns an empty list without raising; in both cases
\* the files stay as they were, so no chunk file is created and no input line
\* is written anywhere.
C24_NonPositiveChunkSize ==
    [][ ( /\ call'.op = "split_timestamped_txt"
          /\ Exists(call'.path)
          /\ Len(fs[call'.path]) > 0
          /\ call'.arg <= 0 )
        => /\ fs' = fs
           /\ call'.arg = 0 => (ret'.kind = "raise" /\ ret'.val = "ZeroDivisionError")
           /\ call'.arg < 0 => ret' = ReturnsPaths(<<>>) ]_vars

\* C24's case: a hand-made file, the only file there is, has been split
\* with a negative segments_per_chunk
C24_Witness ==
    /\ call.op = "split_timestamped_txt"
    /\ call.path = TextPath
    /\ call.arg < 0
    /\ DOMAIN fs = {TextPath}
    /\ Len(fs[TextPath]) > 0
    /\ ret = ReturnsPaths(<<>>)

----------------------------------------------------------------------------
(* The names of the chunk files: a file of any name is split.               *)

DotTxt == <<".", "t", "x", "t">>

NameInputs ==
    { <<"v">> \o DotTimestamped \o DotTxt,
      <<"v">> \o DotTimestamped \o DotTimestamped \o DotTxt,
      <<"n">> \o DotTxt,
      <<"a", ".", "b">> \o DotTxt,
      <<"n">> \o DotTxt \o DotTxt,
      DotTimestamped \o DotTxt,
      DotTxt,
      <<"m">>,
      <<"m", ".">>,
      <<"m", ".", "s", "r", "t">>,
      <<"m">> \o DotTimestamped,
      <<"m">> \o DotTimestamped \o <<".", "s", "r", "t">> }

NamedPaths == { <<"in", name>> : name \in NameInputs }

InitNames ==
    /\ call = NoCall
    /\ ret = Nothing
    /\ frames = <<>>
    /\ events = <<>>
    /\ made = <<>>
    /\ segments = <<>>
    /\ \E path \in NamedPaths,
          lines \in ListsUpTo({<<"x">>}, MaxLines) \ {<<>>} :
           fs = WriteText(NoFiles, path, Join(lines, <<NL>>))

\* writer.split_timestamped_txt(path, segments_per_chunk) on a file of any
\* name
SplitNamed ==
    \E timestamped_txt_path \in NamedPaths,
       segments_per_chunk \in 1..MaxChunkSize :
        SplitCall(timestamped_txt_path, segments_per_chunk)

NextNames == SplitNamed

SpecNames == InitNames /\ [][NextNames]_vars

\* name without suffix when it ends with suffix, name otherwise
WithoutSuffix(name, suffix) ==
    IF Len(name) >= Len(suffix)
       /\ SubSeq(name, Len(name) - Len(suffix) + 1, Len(name)) = suffix
    THEN SubSeq(name, 1, Len(name) - Len(suffix))
    ELSE name

\* the file name with a trailing '.txt' removed and then a trailing
\* '.timestamped' removed
TxtBaseName(name) ==
    WithoutSuffix(WithoutSuffix(name, <<".", "t", "x", "t">>),
                  <<".", "t", "i", "m", "e", "s", "t", "a", "m", "p", "e", "d">>)

\* the chunks of the last split are named after TxtBaseName, which is the
\* part of the name before the suffixes, unchanged
NamedAfterTxtBaseName ==
    LET name == call.path[2]
        total == Len(ret.val)
    IN  /\ ret.kind = "paths"
        /\ total >= 1
        /\ \A k \in 1..total :
              ret.val[k] = <<call.path[1], ChunkNamed(TxtBaseName(name), k, total)>>
        /\ name = <<"v", ".", "t", "i", "m", "e", "s", "t", "a", "m", "p",
                    "e", "d", ".", "t", "x", "t">> => TxtBaseName(name) = <<"v">>

\* C15 as stated: for every input file name the chunks are named after the
\* file name with a trailing '.txt' removed and then a trailing
\* '.timestamped' removed; X.timestamped.txt gives
\* X.timestamped.chunkNNNofMMM.txt, with '.timestamped' once.
C15_BaseNameOfEveryName ==
    (call.op = "split_timestamped_txt" /\ Exists(call.path)) =>
        NamedAfterTxtBaseName

\* a name that is some characters followed by '.txt'
EndsInDotTxt(name) ==
    /\ Len(name) > 4
    /\ SubSeq(name, Len(name) - 3, Len(name)) = <<".", "t", "x", "t">>

\* C15 amended: for every input file name that is at least one character
\* followed by '.txt', the chunks are named after the file name with the
\* trailing '.txt' removed and then a trailing '.timestamped' removed;
\* X.timestamped.txt gives X.timestamped.chunkNNNofMMM.txt, with
\* '.timestamped' once.
C15_BaseNameOfTxtName ==
    (call.op = "split_timestamped_txt" /\ Exists(call.path)
        /\ EndsInDotTxt(call.path[2])) =>
        NamedAfterTxtBaseName

\* C15's case: v.timestamped.txt has been split into MaxLines chunks
C15_Witness ==
    /\ call.op = "split_timestamped_txt"
    /\ call.path[2] = TimestampedPath[2]
    /\ Exists(call.path)
    /\ ret.kind = "paths"
    /\ Len(ret.val) = MaxLines
    /\ ret.val[1][2] = <<"v">> \o DotTimestamped
                           \o <<".", "c", "h", "u", "n", "k", "0", "0", "1",
                                "o", "f">> \o ThreeDigits(MaxLines) \o DotTxt

----------------------------------------------------------------------------
(* Two invocations under way at once.  Each call of the file system         *)
(* (exists, read_text, write_text) is one step of an invocation, and the    *)
(* steps of the two invocations interleave in every order.                  *)

Invocations == {1, 2}

SiblingPath ==
    <<"in", <<"n">> \o DotTimestamped \o <<".", "t", "x", "t">>>>
FarPath ==
    <<"out", <<"n">> \o DotTimestamped \o <<".", "t", "x", "t">>>>

\* the input files of the splitter
SplitInputs == {TextPath, SiblingPath, FarPath}

\* the local variables of an invocation that has not run yet
Frame(op, path, arg, files) ==
    [op |-> op, path |-> path, arg |-> arg, pc |-> "start",
     lines |-> <<>>, total_chunks |-> 0, chunk_idx |-> 0,
     ret |-> Nothing, before |-> files]

\* the calls a caller makes, `before` being the files at that time
Calls(segs, files) ==
    { Frame("split_timestamped_txt", path, k, files) :
          path \in SplitInputs, k \in 0..MaxChunkSize }
    \cup { Frame("write_srt", path, segs, files) : path \in {SrtA, SrtB} }
    \cup { Frame("parse_srt", path, 0, files) : path \in {SrtA, RawSrt} }

InitConcurrent ==
    /\ call = NoCall
    /\ ret = Nothing
    /\ made = <<>>
    /\ events = <<>>
    /\ segments = <<Segment(T0, T1, <<"a">>)>>
    /\ \E content \in [SplitInputs ->
                           { Join(<<<<"x">>, <<"y">>>>, <<NL>>),
                             Join(<<<<"y">>, <<"x">>, <<"y">>>>, <<NL>>) }] :
           fs = [q \in SplitInputs \cup {RawSrt} |->
                    IF q = RawSrt THEN GoodBlock.raw ELSE content[q]]
    /\ frames \in [Invocations -> Calls(segments, fs)]
    /\ \A p, q \in Invocations : p # q => frames[p].path # frames[q].path

\* the step of invocation p that leaves it at `pc` with locals `changes`
Step(p, changes) ==
    frames' = [frames EXCEPT ![p] =
                  [field \in DOMAIN frames[p] |->
                      IF field \in DOMAIN changes THEN changes[field]
                      ELSE frames[p][field]]]

Returned(r) == [pc |-> "done", ret |-> r]

At(p, op, pc) == frames[p].op = op /\ frames[p].pc = pc

\* if not timestamped_path.exists(): raise FileNotFoundError(...)
SplitCheckExists ==
    \E p \in Invocations :
        /\ At(p, "split_timestamped_txt", "start")
        /\ IF Exists(frames[p].path)
           THEN Step(p, [pc |-> "read"])
           ELSE Step(p, Returned(RaisesSaying("FileNotFoundError",
                                     TimestampedNotFound(frames[p].path))))
        /\ UNCHANGED <<fs, segments, made, call, ret, events>>

\* lines = read_text().splitlines(), the empty-file return and total_chunks
SplitReadLines ==
    \E p \in Invocations :
        /\ At(p, "split_timestamped_txt", "read")
        /\ LET lines == SplitLines(fs[frames[p].path])
               segments_per_chunk == frames[p].arg
           IN  IF Len(lines) = 0 THEN Step(p, Returned(ReturnsPaths(<<>>)))
               ELSE IF segments_per_chunk = 0
               THEN Step(p, Returned(Raises("ZeroDivisionError")))
               ELSE Step(p, [pc |-> "write", lines |-> lines, chunk_idx |-> 0,
                             total_chunks |->
                                 Ceil(Len(lines), segments_per_chunk)])
        /\ UNCHANGED <<fs, segments, made, call, ret, events>>

\* one round of the loop that writes the chunk files, and the return after
\* the last round
SplitWriteChunk ==
    \E p \in Invocations :
        /\ At(p, "split_timestamped_txt", "write")
        /\ LET f == frames[p]
           IN  /\ fs' = WriteText(fs,
                            ChunkPath(f.path, f.chunk_idx, f.total_chunks),
                            Join(ChunkLines(f.lines, f.chunk_idx, f.arg), <<NL>>))
               /\ IF f.chunk_idx + 1 < f.total_chunks
                  THEN Step(p, [chunk_idx |-> f.chunk_idx + 1])
                  ELSE Step(p, [chunk_idx |-> f.chunk_idx + 1] @@
                               Returned(ReturnsPaths(
                                   ChunkFiles(f.path, f.total_chunks))))
        /\ UNCHANGED <<segments, made, call, ret, events>>

\* write_srt: its one write_text
WriteSrtStep ==
    \E p \in Invocations :
        /\ At(p, "write_srt", "start")
        /\ fs' = WriteText(fs, frames[p].path, SrtContent(frames[p].arg))
        /\ Step(p, Returned(ReturnsNone))
        /\ UNCHANGED <<segments, made, call, ret, events>>

\* parse_srt: its one read_text and what it makes of the content
ParseSrtStep ==
    \E p \in Invocations :
        /\ At(p, "parse_srt", "start")
        /\ Step(p, Returned(
               IF Exists(frames[p].path)
               THEN ReturnsSegments(ParseSrtContent(fs[frames[p].path]))
               ELSE RaisesSaying("FileNotFoundError",
                                 ReadTextError(frames[p].path))))
        /\ UNCHANGED <<fs, segments, made, call, ret, events>>

NextConcurrent ==
    \/ SplitCheckExists
    \/ SplitReadLines
    \/ SplitWriteChunk
    \/ WriteSrtStep
    \/ ParseSrtStep

SpecConcurrent == InitConcurrent /\ [][NextConcurrent]_vars

\* what the call of frame f returns, and the files it leaves, when it runs
\* from its first step to its last with no other call under way
RunAlone(f) ==
    LET files == f.before
    IN  IF f.op = "write_srt"
        THEN [ret |-> ReturnsNone,
              fs |-> WriteText(files, f.path, SrtContent(f.arg))]
        ELSE IF f.path \notin DOMAIN files
        THEN [ret |-> RaisesSaying("FileNotFoundError",
                          IF f.op = "parse_srt" THEN ReadTextError(f.path)
                          ELSE TimestampedNotFound(f.path)),
              fs |-> files]
        ELSE IF f.op = "parse_srt"
        THEN [ret |-> ReturnsSegments(ParseSrtContent(files[f.path])),
              fs |-> files]
        ELSE LET lines == SplitLines(files[f.path])
                 total_chunks == Ceil(Len(lines), f.arg)
             IN  IF Len(lines) = 0
                 THEN [ret |-> ReturnsPaths(<<>>), fs |-> files]
                 ELSE IF f.arg = 0
                 THEN [ret |-> Raises("ZeroDivisionError"), fs |-> files]
                 ELSE [ret |-> ReturnsPaths(ChunkFiles(f.path, total_chunks)),
                       fs |-> WriteChunks(files, f.path, lines, f.arg,
                                          total_chunks, 0)]

\* the files a call produces: the output file of a writer, the chunk files
\* of the splitter
Produced(f) ==
    IF f.op = "write_srt" THEN {f.path}
    ELSE IF RunAlone(f).ret.kind = "paths"
    THEN {RunAlone(f).ret.val[i] : i \in 1..Len(RunAlone(f).ret.val)}
    ELSE {}

AllDone == \A p \in Invocations : frames[p].pc = "done"

\* invocation p returned what it returns alone, and the files it produced
\* hold what they hold when it runs alone
AsAlone(p) ==
    /\ frames[p].ret = RunAlone(frames[p]).ret
    /\ \A path \in Produced(frames[p]) :
          Exists(path) /\ fs[path] = RunAlone(frames[p]).fs[path]

\* C11 as stated: two invocations of the writer, parser or splitter that run
\* interleaved on distinct file paths (two split_timestamped_txt calls on two
\* different input files among them) each return what they return alone and
\* leave the files they produced as they leave them alone.
C11_DistinctPathsNonInterference ==
    AllDone => \A p \in Invocations : AsAlone(p)

\* two calls keep apart: they are given distinct paths, and two splits read
\* input files of different directories or of different base names
Apart(f, g) ==
    /\ f.path # g.path
    /\ (f.op = "split_timestamped_txt" /\ g.op = "split_timestamped_txt") =>
           (f.path[1] # g.path[1] \/ BaseName(f.path[2]) # BaseName(g.path[2]))

\* C11 amended: two invocations that run interleaved on file paths of which
\* none that one writes is read or written by the other (for two splits:
\* input files of different directories or of different base names) each
\* return what they return alone and leave the files they produced as they
\* leave them alone.
C11_ApartNonInterference ==
    (AllDone /\ Apart(frames[1], frames[2])) => \A p \in Invocations : AsAlone(p)

\* C11's case: two splits of files of the same name in two directories have
\* both written their chunks, as many for the one as for the other
C11_Witness ==
    /\ AllDone
    /\ frames[1].op = "split_timestamped_txt" /\ frames[1].path = SiblingPath
    /\ frames[2].op = "split_timestamped_txt" /\ frames[2].path = FarPath
    /\ frames[1].ret.kind = "paths" /\ frames[2].ret.kind = "paths"
    /\ Len(frames[1].ret.val) >= 2
    /\ Len(frames[2].ret.val) = Len(frames[1].ret.val)
    /\ fs[frames[1].ret.val[1]] # fs[frames[2].ret.val[1]]

----------------------------------------------------------------------------
(* The writer as a whole: its three writers, parse_srt and the splitter,    *)
(* called in any order on the caller's segments, on files that are not      *)
(* there and on files of zero bytes.                                        *)

RECURSIVE TextLines(_)
\* [segment['text'] for segment in segments]
TextLines(segs) ==
    IF Len(segs) = 0 THEN <<>> ELSE <<segs[1].text>> \o TextLines(Tail(segs))

\* a write_txt that ends the file with a line break
TxtContentFinalBreak(segs) == Join(TextLines(segs), <<NL, NL>>) \o <<NL>>

\* a write_txt that puts each text on the line after the one before
TxtContentSingleBreak(segs) ==
    IF Len(segs) = 0 THEN <<>> ELSE Join(TextLines(segs), <<NL>>)

\* the content write_txt writes
TxtContent(segs) ==
    IF Len(segs) = 0 THEN <<>> ELSE Join(TextLines(segs), <<NL, NL>>)

TxtPath == <<"out", <<"a", ".", "t", "x", "t">>>>

WriterSegmentLists ==
    ListsUpTo({Segment(T0, T1, <<"a">>), Segment(T1, T2, <<"b">>)}, MaxSegments)

InitWriter ==
    /\ call = NoCall
    /\ ret = Nothing
    /\ frames = <<>>
    /\ events = <<>>
    /\ made = <<>>
    /\ segments \in WriterSegmentLists
    /\ \E paths \in {{}, {RawSrt}, {RawSrt, TextPath}} :
           fs = [q \in paths |-> <<>>]

\* writer.write_txt(segments, output_path)
WriteTxt ==
    /\ fs' = WriteText(fs, TxtPath, TxtContent(segments))
    /\ call' = Called("write_txt", TxtPath, segments)
    /\ ret' = ReturnsNone
    /\ UNCHANGED <<segments, made, frames, events>>

NextWriter ==
    \/ WriteSrt
    \/ WriteTxt
    \/ WriteTimestampedTxt
    \/ ParseSrt
    \/ SplitTimestampedTxt

SpecWriter == InitWriter /\ [][NextWriter]_vars

\* the characters of s stand somewhere in message
Mentions(message, s) ==
    \E i \in 1..(Len(message) - Len(s) + 1) :
        SubSeq(message, i, i + Len(s) - 1) = s

\* C12: parse_srt and split_timestamped_txt called with a path at which no
\* file exists raise a FileNotFoundError whose message names that path,
\* return no result, and leave every file as it was: none created, none
\* modified.
C12_MissingInput ==
    [][ ( /\ call'.op \in {"parse_srt", "split_timestamped_txt"}
          /\ ~Exists(call'.path) )
        => ( /\ ret'.kind = "raise"
             /\ ret'.val = "FileNotFoundError"
             /\ Mentions(ret'.message, <<call'.path[1], "/">> \o call'.path[2])
             /\ fs' = fs ) ]_vars

\* C12's case: the splitter was called on a file that is not there, while
\* other files are, and raised
C12_Witness ==
    /\ call.op = "split_timestamped_txt"
    /\ ~Exists(call.path)
    /\ Exists(RawSrt) /\ Exists(SrtA)
    /\ ret.kind = "raise"
    /\ ret.val = "FileNotFoundError"

Writers == {"write_srt", "write_txt", "write_timestamped_txt"}

\* C13: write_srt, write_txt and write_timestamped_txt called with an empty
\* segment list each create the output file with zero bytes and raise no
\* error, and parse_srt on a zero-byte file returns the empty list.
C13_EmptySequence ==
    /\ (call.op \in Writers /\ Len(call.arg) = 0) =>
           /\ ret = ReturnsNone
           /\ Exists(call.path)
           /\ Len(fs[call.path]) = 0
    /\ (call.op = "parse_srt" /\ Exists(call.path) /\ Len(fs[call.path]) = 0) =>
           ret = ReturnsSegments(<<>>)

\* C13's case: the three writers have written the empty list, and parse_srt
\* has read the file write_srt made of it
C13_Witness ==
    /\ segments = <<>>
    /\ call.op = "parse_srt"
    /\ call.path = SrtA
    /\ Exists(SrtA) /\ Exists(TxtPath) /\ Exists(TimestampedPath)
    /\ fs[SrtA] = <<>> /\ fs[TxtPath] = <<>> /\ fs[TimestampedPath] = <<>>
    /\ ret.kind = "segments"
    /\ ret.val = <<>>

RECURSIVE Paragraphs(_, _)
\* the texts of segs from entry i on, a blank line between one and the next
Paragraphs(segs, i) ==
    IF i = Len(segs) THEN segs[i].text
    ELSE segs[i].text \o <<NL, NL>> \o Paragraphs(segs, i + 1)

\* C21: for N >= 1 segments write_txt writes the texts in input order,
\* consecutive texts separated by exactly one blank line (two line breaks),
\* with no sequence numbers, no timestamps, nothing before the first text
\* and nothing after the last.
C21_TextOnlyWriter ==
    (call.op = "write_txt" /\ Len(call.arg) >= 1) =>
        /\ ret = ReturnsNone
        /\ Exists(call.path)
        /\ fs[call.path] = Paragraphs(call.arg, 1)
        /\ call.arg = <<Segment(T0, T1, <<"a">>), Segment(T1, T2, <<"b">>)>> =>
               fs[call.path] = <<"a", NL, NL, "b">>

\* C21's case: two segments of different texts, the later one first, have
\* been written
C21_Witness ==
    /\ call.op = "write_txt"
    /\ Len(call.arg) >= 2
    /\ call.arg[1].text = <<"b">>
    /\ call.arg[2].text = <<"a">>
    /\ Exists(TxtPath)
    /\ fs[TxtPath][1] = "b"

----------------------------------------------------------------------------
(* OllamaTranslator.  The backend is what requests.post meets: it raises an *)
(* exception of the requests library or answers with a status and a body.   *)
(* A str that the code only passes on (a language, a URL, the fixed words   *)
(* of a message) stands for its characters.                                 *)

BaseUrl == "http://localhost:11434"

\* the classes of requests.exceptions the backend raises, each with the
\* classes it inherits from
RequestExceptions ==
    [ ConnectionError |-> {"ConnectionError", "RequestException"},
      ConnectTimeout |-> {"ConnectTimeout", "ConnectionError", "Timeout",
                          "RequestException"},
      ReadTimeout |-> {"ReadTimeout", "Timeout", "RequestException"},
      TooManyRedirects |-> {"TooManyRedirects", "RequestException"} ]

Raised(class) == [kind |-> "raise", class |-> class]

Response(status, body) == [kind |-> "response", status |-> status, body |-> body]

\* a JSON object with a "response" member, or without one
Object(text) == [json |-> "object", fields |-> [response |-> text]]

\* what the backend answers to one request
Replies ==
    { Raised(class) : class \in DOMAIN RequestExceptions }
    \cup { Response(200, Object(<<"T">>)),
           Response(200, Object(<<" ", "U", NL>>)),
           Response(200, [json |-> "object", fields |-> [x \in {} |-> <<>>]]),
           Response(200, [json |-> "array"]),
           Response(200, [json |-> "invalid"]),
           Response(500, Object(<<"T">>)) }

\* the prompt and the keyword arguments of requests.post
Request(text) ==
    [url |-> <<BaseUrl, "/api/generate">>,
     model |-> "qwen2.5:7b",
     prompt |-> <<"Translate the following from ", "English", " to ",
                  "Chinese",
                  ". Only output the translation, nothing else:", NL, NL>>
                    \o text,
     stream |-> FALSE]

\* handlers that ask for a Timeout before they ask for a ConnectionError
ExceptTimeoutFirst(bases, e) ==
    IF "Timeout" \in bases
    THEN RaisesSaying("RuntimeError", <<"Translation request timed out">>)
    ELSE IF "ConnectionError" \in bases
    THEN RaisesSaying("ConnectionError",
             <<"Cannot connect to Ollama at ", BaseUrl, ". ",
               "Make sure Ollama is running (ollama serve).">>)
    ELSE RaisesSaying("RuntimeError", <<"Translation failed: ", e>>)

\* the except clauses of translate_text, in their order, for an exception e
\* of requests.exceptions whose class has these bases
Except(bases, e) ==
    IF "ConnectionError" \in bases
    THEN RaisesSaying("ConnectionError",
             <<"Cannot connect to Ollama at ", BaseUrl, ". ",
               "Make sure Ollama is running (ollama serve).">>)
    ELSE IF "Timeout" \in bases
    THEN RaisesSaying("RuntimeError", <<"Translation request timed out">>)
    ELSE RaisesSaying("RuntimeError", <<"Translation failed: ", e>>)

\* what translate_text may return or raise when the backend answers reply.
\* A status of 400 to 599 makes response.raise_for_status() raise an
\* HTTPError.
\* A body that is no JSON makes response.json() raise: a JSONDecodeError
\* that is a RequestException in the requests library of today, and a plain
\* ValueError, which no clause catches, in an older one.
TranslateText(text, reply) ==
    IF reply.kind = "raise"
    THEN {Except(RequestExceptions[reply.class], reply.class)}
    ELSE IF 400 <= reply.status /\ reply.status < 600
    THEN {Except({"HTTPError", "RequestException"}, "HTTPError")}
    ELSE IF reply.body.json = "invalid"
    THEN {Except({"JSONDecodeError", "RequestException"}, "JSONDecodeError"),
          Raises("JSONDecodeError")}
    ELSE IF reply.body.json # "object"
    THEN {Raises("AttributeError")}
    ELSE LET result == reply.body.fields
         IN  {ReturnsStr(Strip(IF "response" \in DOMAIN result
                               THEN result.response ELSE <<>>))}

\* a callback that counts from 0
ProgressCallFromZero(i, total) ==
    [type |-> "progress", current |-> i, total |-> total]

\* progress_callback(i + 1, total)
ProgressCall(i, total) ==
    [type |-> "progress", current |-> i + 1, total |-> total]

\* a loop that appends the segment it was given
TranslatedSegmentUntouched(segment, translated_text) == segment

\* {'start': segment['start'], 'end': segment['end'], 'text': translated_text}
TranslatedSegment(segment, translated_text) ==
    [start |-> segment.start, end |-> segment.end, text |-> translated_text]

TranslateSegmentLists ==
    ListsUpTo({Segment(T0, T1, <<"a">>), Segment(T1, T2, <<"b">>)}, MaxSegments)

\* translate_segments has been called and stands before its loop
InitTranslate ==
    /\ fs = NoFiles
    /\ made = <<>>
    /\ ret = Nothing
    /\ events = <<>>
    /\ segments \in TranslateSegmentLists
    /\ \E progress_callback \in BOOLEAN :
          /\ call = Called("translate_segments", <<>>, progress_callback)
          /\ frames = [pc |-> "for", i |-> 0, total |-> Len(segments),
                       translated_segments |-> <<>>,
                       progress_callback |-> progress_callback]

\* the loop takes the next segment and reports it to the callback, if any
NextSegment ==
    /\ call.op = "translate_segments"
    /\ frames.pc = "for"
    /\ frames.i < Len(segments)
    /\ frames' = [frames EXCEPT !.pc = "translate_text"]
    /\ events' = IF frames.progress_callback
                 THEN Append(events, ProgressCall(frames.i, frames.total))
                 ELSE events
    /\ UNCHANGED <<fs, segments, made, call, ret>>

\* a loop that catches what translate_text raises, keeps the segment as it
\* was and goes on with the next one
TranslateSegmentCarryOn ==
    /\ call.op = "translate_segments"
    /\ frames.pc = "translate_text"
    /\ LET segment == segments[frames.i + 1]
       IN  \E reply \in Replies :
             \E result \in TranslateText(segment.text, reply) :
               /\ events' = Append(events,
                      [type |-> "translate_text", text |-> segment.text,
                       request |-> Request(segment.text), reply |-> reply,
                       result |-> result])
               /\ frames' = [frames EXCEPT
                      !.pc = "for",
                      !.i = frames.i + 1,
                      !.translated_segments =
                          Append(frames.translated_segments,
                                 IF result.kind = "str"
                                 THEN TranslatedSegment(segment, result.val)
                                 ELSE segment)]
    /\ UNCHANGED <<fs, segments, made, call, ret>>

\* translate_text on the segment's text; the segment is appended, or the
\* exception leaves translate_segments
TranslateSegment ==
    /\ call.op = "translate_segments"
    /\ frames.pc = "translate_text"
    /\ LET segment == segments[frames.i + 1]
       IN  \E reply \in Replies :
             \E result \in TranslateText(segment.text, reply) :
               /\ events' = Append(events,
                      [type |-> "translate_text", text |-> segment.text,
                       request |-> Request(segment.text), reply |-> reply,
                       result |-> result])
               /\ IF result.kind = "str"
                  THEN /\ frames' = [frames EXCEPT
                              !.pc = "for",
                              !.i = frames.i + 1,
                              !.translated_segments =
                                  Append(frames.translated_segments,
                                         TranslatedSegment(segment, result.val))]
                       /\ UNCHANGED ret
                  ELSE /\ frames' = [frames EXCEPT !.pc = "done"]
                       /\ ret' = result
    /\ UNCHANGED <<fs, segments, made, call>>

\* return translated_segments
ReturnTranslated ==
    /\ call.op = "translate_segments"
    /\ frames.pc = "for"
    /\ frames.i >= Len(segments)
    /\ frames' = [frames EXCEPT !.pc = "done"]
    /\ ret' = ReturnsSegments(frames.translated_segments)
    /\ UNCHANGED <<fs, segments, made, call, events>>

NextTranslate == NextSegment \/ TranslateSegment \/ ReturnTranslated

SpecTranslate == InitTranslate /\ [][NextTranslate]_vars

IsTranslation(e) == e.type = "translate_text"

\* the calls of translate_text so far, in order
Translations == SelectSeq(events, IsTranslation)

\* translate_segments has returned its list
TranslatedAll == call.op = "translate_segments" /\ ret.kind = "segments"

\* C18: when every translate_text call succeeds, translate_segments returns
\* a list as long as its input, element i with the start and end of input
\* segment i and with the text translate_text returned for that segment's
\* text; translate_text is called once for each segment, in order, so an
\* empty input returns an empty list and the backend is never contacted.
C18_TranslationPreservesTiming ==
    TranslatedAll =>
        /\ Len(ret.val) = Len(segments)
        /\ Len(Translations) = Len(segments)
        /\ \A i \in 1..Len(segments) :
              /\ ret.val[i].start = segments[i].start
              /\ ret.val[i].end = segments[i].end
              /\ Translations[i].text = segments[i].text
              /\ Translations[i].result.kind = "str"
              /\ ret.val[i].text = Translations[i].result.val

\* C18's case: MaxSegments segments have been translated, the first by an
\* answer that came with whitespace around it
C18_Witness ==
    /\ TranslatedAll
    /\ Len(ret.val) = MaxSegments
    /\ Len(segments) = MaxSegments
    /\ segments[1].text = <<"a">>
    /\ Translations[1].reply = Response(200, Object(<<" ", "U", NL>>))
    /\ ret.val[1] = [start |-> T0, end |-> T1, text |-> <<"U">>]

\* C19: given a progress callback and n segments, a translate_segments that
\* returns has called the callback exactly n times, with (1, n), (2, n), ...,
\* (n, n) in that order, the call (i, n) before segment i was translated and
\* after segment i - 1 was; for n = 0 the callback is never called.
C19_ProgressOrder ==
    (TranslatedAll /\ call.arg = TRUE) =>
        LET n == Len(segments)
        IN  /\ Len(events) = 2 * n
            /\ \A i \in 1..n :
                  /\ events[2 * i - 1] =
                         [type |-> "progress", current |-> i, total |-> n]
                  /\ events[2 * i].type = "translate_text"
                  /\ events[2 * i].text = segments[i].text

\* C19's case: MaxSegments segments have been translated with a callback
C19_Witness ==
    /\ TranslatedAll
    /\ call.arg = TRUE
    /\ Len(segments) = MaxSegments
    /\ Len(events) >= 2
    /\ events[1].type = "progress"
    /\ events[Len(events)].type = "translate_text"

\* the request failed to connect: requests.exceptions.ConnectionError and
\* the classes below it
ConnectionFailures == {"ConnectionError", "ConnectTimeout"}

\* the request timed out: requests.exceptions.Timeout and the classes below
\* it, a timeout while connecting and one while reading
Timeouts == {"ConnectTimeout", "ReadTimeout"}

IsConnectionError(result) ==
    /\ result.kind = "raise"
    /\ result.val = "ConnectionError"
    /\ Mentions(result.message, <<"Cannot connect to Ollama at ", BaseUrl>>)

IsRuntimeError(result, words) ==
    /\ result.kind = "raise"
    /\ result.val = "RuntimeError"
    /\ result.message[1] = words

\* every call of translate_text whose request failed raised what its kind of
\* failure asks for, the timeouts being those of the set `timeouts`
ErrorsMapped(timeouts) ==
    \A i \in 1..Len(Translations) :
        LET reply == Translations[i].reply
            result == Translations[i].result
        IN  /\ (reply.kind = "raise" /\ reply.class \in ConnectionFailures) =>
                   IsConnectionError(result)
            /\ (reply.kind = "raise" /\ reply.class \in timeouts) =>
                   IsRuntimeError(result, "Translation request timed out")
            /\ ( \/ /\ reply.kind = "raise"
                    /\ reply.class \notin ConnectionFailures \cup Timeouts
                 \/ /\ reply.kind = "response"
                    /\ reply.status \in 400..599 ) =>
                   IsRuntimeError(result, "Translation failed: ")

\* C20 as stated: a connection failure of the request yields a
\* ConnectionError that says it cannot connect to Ollama at the base URL, a
\* timeout yields a RuntimeError that says the request timed out, any other
\* request failure (an HTTP error status included) yields a RuntimeError
\* 'Translation failed'; in none of these cases a string is returned.
C20_ErrorMapping == ErrorsMapped(Timeouts)

\* C20 amended: a connection failure of the request, a timeout while
\* connecting included, yields the ConnectionError; a timeout that is no
\* connection failure (a timeout while reading the response) yields the
\* RuntimeError that says the request timed out; any other request failure
\* yields the RuntimeError 'Translation failed'; in none of these cases a
\* string is returned.
C20_ErrorMappingConnectFirst == ErrorsMapped(Timeouts \ ConnectionFailures)

\* C20's case: the backend could not be reached in time while the second
\* segment was translated, and translate_segments raised
C20_Witness ==
    /\ call.op = "translate_segments"
    /\ ret.kind = "raise"
    /\ ret.val = "ConnectionError"
    /\ Len(Translations) = 2
    /\ Translations[1].result.kind = "str"
    /\ Translations[2].reply = Raised("ConnectTimeout")
    /\ Translations[2].result = ret

IsProgress(e) == e.type = "progress"

\* the calls of the progress callback so far, in order
ProgressCalls == SelectSeq(events, IsProgress)

\* a translate_text that raised was the last one, on segment i; what it
\* raised is what translate_segments raised, the loop is over, the segments
\* 1..i and no other were sent, and the callback, if there is one, was called
\* with (1, n), ..., (i, n) and no more
FailureLeaves ==
    \A i \in 1..Len(Translations) :
        Translations[i].result.kind # "str" =>
            /\ i = Len(Translations)
            /\ i <= Len(segments)
            /\ ret = Translations[i].result
            /\ ret.kind = "raise"
            /\ frames.pc = "done"
            /\ \A j \in 1..i : Translations[j].text = segments[j].text
            /\ \A j \in 1..(i - 1) : Translations[j].result.kind = "str"
            /\ IF call.arg = TRUE
               THEN /\ Len(ProgressCalls) = i
                    /\ \A j \in 1..i :
                          ProgressCalls[j] =
                              [type |-> "progress", current |-> j,
                               total |-> Len(segments)]
               ELSE Len(ProgressCalls) = 0

\* C26: when translate_text raises on segment i, translate_segments raises
\* that same exception and returns no list, not a partial one either; no
\* segment after i is sent for translation; the progress callback has been
\* called for 1..i and no more; and no step of translate_segments changes
\* the input list or its segments.
C26_FailureMidway ==
    [][ segments' = segments /\ FailureLeaves' ]_vars

\* C26's case: with a callback and MaxSegments segments, the first segment
\* was answered by a status of 500 and translate_segments raised
C26_Witness ==
    /\ call.op = "translate_segments"
    /\ call.arg = TRUE
    /\ Len(segments) = MaxSegments
    /\ ret.kind = "raise"
    /\ Len(Translations) = 1
    /\ Translations[1].reply = Response(500, Object(<<"T">>))
    /\ Translations[1].result = ret
    /\ Len(ProgressCalls) = 1
    /\ frames.translated_segments = <<>>

----------------------------------------------------------------------------
(* Transcriber.  Whisper is what the code meets of it: load_model and the   *)
(* two transcribe functions raise or answer.  The variable frames holds the *)
(* Transcriber object, events the calls made and what whisper was asked.    *)

\* transcribe calls made on one Transcriber
MaxCalls == 3

MLX_MODEL_MAP ==
    [ tiny |-> "mlx-community/whisper-tiny",
      base |-> "mlx-community/whisper-base-mlx",
      small |-> "mlx-community/whisper-small-mlx",
      medium |-> "mlx-community/whisper-medium-mlx",
      large |-> "mlx-community/whisper-large-v3-mlx" ]

\* what _detect_backend returns on the machines there are
Backends ==
    { [backend |-> "mlx", device |-> "mlx", compute_type |-> "Apple Silicon"],
      [backend |-> "openai-whisper", device |-> "cuda", compute_type |-> "float16"],
      [backend |-> "openai-whisper", device |-> "cpu", compute_type |-> "float32"] }

\* self.model = None
NoModel == [loaded |-> FALSE]

\* the object whisper.load_model returned at its n-th call
WhisperModel(name, device, n) ==
    [loaded |-> TRUE, name |-> name, device |-> device, id |-> n]

\* Transcriber(model_size) on a machine where _detect_backend gives detected
Transcriber(model_size, detected) ==
    [model_size |-> model_size, backend |-> detected.backend,
     device |-> detected.device, compute_type |-> detected.compute_type,
     model |-> NoModel]

\* an exception whose str() is message
Fails(message) == [kind |-> "raise", message |-> message]

\* what a transcribe function of whisper does with an audio file: it
\* raises, or answers with segments, each with more members than the three
\* the code reads
WhisperOutcomes ==
    { Fails("out of memory"),
      [kind |-> "output", segments |-> <<>>],
      [kind |-> "output",
       segments |->
           << [id |-> 0, start |-> T0, end |-> T1, text |-> <<" ", "a">>],
              [id |-> 1, start |-> T1, end |-> T2,
               text |-> <<" ", "b", " ">>] >>] }

\* what whisper.load_model does
LoadOutcomes == { Fails("download failed"), [kind |-> "model"] }

\* language: None or a code
Languages == {"None", "en"}

\* kwargs["language"] = language, if language
WithLanguage(kwargs, language) ==
    IF language # "None" /\ language # ""
    THEN [k \in DOMAIN kwargs \cup {"language"} |->
             IF k = "language" THEN language ELSE kwargs[k]]
    ELSE kwargs

RECURSIVE ResultOf(_)
\* result: the start, end and stripped text of every segment of the output
ResultOf(segs) ==
    IF Len(segs) = 0 THEN <<>>
    ELSE << [start |-> segs[1].start, end |-> segs[1].end,
             text |-> Strip(segs[1].text)] >> \o ResultOf(Tail(segs))

\* Exception(f"Transcription failed: {str(e)}")
TranscriptionFailed(e) ==
    RaisesSaying("Exception", <<"Transcription failed: ", e.message>>)

\* a _load_model that loads whenever the backend is openai-whisper
NeedsLoadAlways(self) == self.backend = "openai-whisper"

\* the condition of _load_model
NeedsLoad(self) == self.model = NoModel /\ self.backend = "openai-whisper"

\* _transcribe_mlx: the object, what is returned or raised, what whisper
\* was asked
TranscribeMlx(self, audio_path, language, output) ==
    [self |-> self,
     log |-> << [type |-> "mlx_whisper.transcribe", audio |-> audio_path,
                 kwargs |-> WithLanguage(
                     [path_or_hf_repo |->
                         IF self.model_size \in DOMAIN MLX_MODEL_MAP
                         THEN MLX_MODEL_MAP[self.model_size]
                         ELSE MLX_MODEL_MAP["medium"]],
                     language),
                 outcome |-> output] >>,
     ret |-> IF output.kind = "raise" THEN output
             ELSE ReturnsSegments(ResultOf(output.segments))]

\* _transcribe_openai_whisper with _load_model; n loads were asked for so far
TranscribeOpenaiWhisper(self, audio_path, language, loaded, output, n) ==
    LET load == << [type |-> "whisper.load_model", name |-> self.model_size,
                    device |-> self.device, outcome |-> loaded] >>
        ask(model) == << [type |-> "model.transcribe", model |-> model,
                          audio |-> audio_path,
                          kwargs |-> WithLanguage([k \in {} |-> ""], language),
                          outcome |-> output] >>
        answer == IF output.kind = "raise" THEN output
                  ELSE ReturnsSegments(ResultOf(output.segments))
    IN  IF ~NeedsLoad(self)
        THEN IF self.model = NoModel
             THEN [self |-> self, log |-> <<>>,
                   ret |-> Fails("'NoneType' object has no attribute 'transcribe'")]
             ELSE [self |-> self, log |-> ask(self.model), ret |-> answer]
        ELSE IF loaded.kind = "raise"
        THEN [self |-> self, log |-> load, ret |-> loaded]
        ELSE LET model == WhisperModel(self.model_size, self.device, n + 1)
             IN  [self |-> [self EXCEPT !.model = model],
                  log |-> load \o ask(model), ret |-> answer]

\* the body of transcribe
TranscribeOn(self, exists, audio_path, language, loaded, output, n) ==
    IF ~exists
    THEN [self |-> self, log |-> <<>>,
          ret |-> RaisesSaying("FileNotFoundError",
                      <<"Audio file not found: ">> \o PathStr(audio_path))]
    ELSE LET done == IF self.backend = "mlx"
                     THEN TranscribeMlx(self, audio_path, language, output)
                     ELSE TranscribeOpenaiWhisper(self, audio_path, language,
                                                  loaded, output, n)
         IN  IF done.ret.kind = "raise"
             THEN [done EXCEPT !.ret = TranscriptionFailed(done.ret)]
             ELSE done

AudioPath == <<"in", <<"v", ".", "w", "a", "v">>>>
NoAudioPath == <<"in", <<"w", ".", "w", "a", "v">>>>

\* the calls of whisper.load_model so far
Loads == SelectSeq(events, LAMBDA e : e.type = "whisper.load_model")

InitTranscriber ==
    /\ fs = WriteText(NoFiles, AudioPath, <<"R", "I", "F", "F">>)
    /\ segments = <<>>
    /\ made = <<>>
    /\ call = NoCall
    /\ ret = Nothing
    /\ events = <<>>
    /\ \E model_size \in {"base", "large"}, detected \in Backends :
           frames = Transcriber(model_size, detected)

\* transcriber.transcribe(audio_path, language)
Transcribe ==
    /\ "backend" \in DOMAIN frames
    /\ Len(SelectSeq(events, LAMBDA e : e.type = "transcribe")) < MaxCalls
    /\ \E audio_path \in {AudioPath, NoAudioPath}, language \in Languages,
          loaded \in LoadOutcomes, output \in WhisperOutcomes :
         LET done == TranscribeOn(frames, Exists(audio_path), audio_path,
                                  language, loaded, output, Len(Loads))
         IN  /\ call' = Called("transcribe", audio_path, language)
             /\ frames' = done.self
             /\ ret' = done.ret
             /\ events' = events
                    \o << [type |-> "transcribe", audio |-> audio_path] >>
                    \o done.log
    /\ UNCHANGED <<fs, segments, made>>

NextTranscriber == Transcribe

SpecTranscriber == InitTranscriber /\ [][NextTranscriber]_vars

\* the events of the call that was made last
RECURSIVE LastCallLog(_)
LastCallLog(log) ==
    IF Len(log) = 0 THEN <<>>
    ELSE IF log[Len(log)].type = "transcribe" THEN <<>>
    ELSE LastCallLog(SubSeq(log, 1, Len(log) - 1)) \o <<log[Len(log)]>>

\* whisper raised in the call that was made last
WhisperRaised ==
    \E i \in 1..Len(LastCallLog(events)) :
        LastCallLog(events)[i].outcome.kind = "raise"

\* a load that gave a model
IsLoaded(e) == e.type = "whisper.load_model" /\ e.outcome.kind = "model"

\* C25: the model is not loaded at construction; a model is loaded only
\* with the openai-whisper backend and only by a transcribe call whose audio
\* file exists; a model once loaded is never loaded again or replaced; a
\* call on a missing audio path raises FileNotFoundError, not wrapped, and
\* leaves the model as it was; a failure after the check of the path is
\* raised as an Exception 'Transcription failed: ...'.
C25_LazyModelLoading ==
    [][ /\ (Len(Loads) = 0 => frames.model = NoModel)
        /\ frames'.model # frames.model =>
              /\ frames.model = NoModel
              /\ frames'.model.loaded
              /\ frames.backend = "openai-whisper"
              /\ call'.op = "transcribe"
              /\ Exists(call'.path)
        /\ Len(Loads') # Len(Loads) =>
              /\ frames.model = NoModel
              /\ frames.backend = "openai-whisper"
              /\ Exists(call'.path)
              /\ Len(Loads') = Len(Loads) + 1
        /\ Len(SelectSeq(events', IsLoaded)) <= 1
        /\ ~Exists(call'.path) =>
              /\ ret'.kind = "raise"
              /\ ret'.val = "FileNotFoundError"
              /\ ret'.message[1] = "Audio file not found: "
              /\ frames' = frames
              /\ LastCallLog(events') = <<>>
        /\ (Exists(call'.path) /\ WhisperRaised') =>
              /\ ret'.kind = "raise"
              /\ ret'.val = "Exception"
              /\ ret'.message[1] = "Transcription failed: "
        /\ (Exists(call'.path) /\ ~WhisperRaised') => ret'.kind = "segments"
      ]_vars

\* C25's case: on a machine without mlx the first call met a missing file,
\* the second loaded the model, and the third, the last one, used that model
\* and failed
C25_Witness ==
    /\ call.op = "transcribe"
    /\ "backend" \in DOMAIN frames
    /\ frames.backend = "openai-whisper"
    /\ frames.model = WhisperModel(frames.model_size, frames.device, 1)
    /\ Len(events) = 6
    /\ events[1].audio = NoAudioPath
    /\ events[3].type = "whisper.load_model"
    /\ events[4].type = "model.transcribe"
    /\ events[6].type = "model.transcribe"
    /\ events[6].model = frames.model
    /\ events[6].outcome.kind = "raise"
    /\ Len(Loads) = 1
    /\ ret = TranscriptionFailed(events[6].outcome)

----------------------------------------------------------------------------
(* main.  One run of the command, step by step: each step ends the run with *)
(* exit status 1 when what it calls raises.  The variable frames holds the  *)
(* local variables of main, events what click.echo printed (the messages    *)
(* without their symbols), ret the exit status.                             *)

VideoNames ==
    { <<"v", ".", "m", "p", "4">>, <<"a", ".", "b", ".", "m", "p", "4">> }

\* click.echo(message)
Echo(message) == [type |-> "echo", err |-> FALSE, message |-> message]

\* sys.exit(code), or main returning
Exit(code) == [kind |-> "exit", val |-> code]

\* the values of the command line
MainOptions ==
    [model : {"base"}, language : Languages, output : {"None", "out"},
     keep_audio : BOOLEAN]

\* main has been called on a video file that exists; a WAV file of an
\* earlier run may lie next to it
InitMain ==
    /\ segments = <<>>
    /\ made = <<>>
    /\ ret = Nothing
    /\ events = <<>>
    /\ \E name \in VideoNames, options \in MainOptions, stale \in BOOLEAN :
          /\ call = Called("main", <<"in", name>>, options)
          /\ fs = IF stale
                  THEN WriteText(WriteText(NoFiles, <<"in", name>>, <<"V">>),
                                 <<"in", Stem(name) \o <<".", "w", "a", "v">>>>,
                                 <<"o", "l", "d">>)
                  ELSE WriteText(NoFiles, <<"in", name>>, <<"V">>)
          /\ frames = [pc |-> "start", video_path |-> <<"in", name>>,
                       model |-> options.model, language |-> options.language,
                       output |-> options.output,
                       keep_audio |-> options.keep_audio,
                       audio_path |-> <<>>, srt_path |-> <<>>,
                       txt_path |-> <<>>]

InMain(pc) == call.op = "main" /\ "pc" \in DOMAIN frames /\ frames.pc = pc

\* the except clauses of main: the message goes to stderr, the exit status
\* is 1
MainFails(echoed, message) ==
    /\ frames' = [frames EXCEPT !.pc = "exit"]
    /\ events' = events \o echoed
           \o << [type |-> "echo", err |-> TRUE,
                  message |-> <<"Error: ">> \o message] >>
    /\ ret' = Exit(1)

\* the output directory and the three paths
MainStart ==
    /\ InMain("start")
    /\ \E mkdir \in {"ok", "PermissionError"} :
          IF frames.output # "None" /\ mkdir # "ok"
          THEN /\ MainFails(<<Echo(<<"Processing: ">> \o frames.video_path[2])>>,
                            <<"[Errno 13] Permission denied: ", frames.output>>)
               /\ UNCHANGED <<fs, segments, made, call>>
          ELSE LET output_dir == IF frames.output # "None"
                                 THEN frames.output ELSE frames.video_path[1]
                   base_name == Stem(frames.video_path[2])
               IN  /\ frames' = [frames EXCEPT
                          !.pc = "extract",
                          !.audio_path =
                              <<output_dir, base_name \o <<".", "w", "a", "v">>>>,
                          !.srt_path =
                              <<output_dir, base_name \o <<".", "s", "r", "t">>>>,
                          !.txt_path = <<output_dir, base_name \o DotTxt>>]
                   /\ events' = Append(events,
                          Echo(<<"Processing: ">> \o frames.video_path[2]))
                   /\ UNCHANGED <<fs, segments, made, call, ret>>

\* step 1: extractor.extract_audio(video_path, audio_path)
MainExtractAudio ==
    /\ InMain("extract")
    /\ \E ffmpeg \in {"ok", "Error"} :
        LET echoed == <<Echo(<<"[1/3] Extracting audio from video...">>)>>
        IN
          IF ~Exists(frames.video_path)
          THEN /\ MainFails(echoed, <<"Video file not found: ">>
                                        \o PathStr(frames.video_path))
               /\ UNCHANGED <<fs, segments, made, call>>
          ELSE IF ffmpeg # "ok"
          THEN /\ MainFails(echoed,
                            <<"Failed to extract audio: ", "Unknown error">>)
               /\ UNCHANGED <<fs, segments, made, call>>
          ELSE /\ fs' = WriteText(fs, frames.audio_path, <<"R", "I", "F", "F">>)
               /\ frames' = [frames EXCEPT !.pc = "transcribe"]
               /\ events' = events \o echoed
                      \o << Echo(<<"Audio extracted to: ">>
                                     \o frames.audio_path[2]) >>
               /\ UNCHANGED <<segments, made, call, ret>>

\* step 2: Transcriber(model_size=model).transcribe(audio_path, language)
MainTranscribe ==
    /\ InMain("transcribe")
    /\ \E detected \in Backends, loaded \in LoadOutcomes,
          output \in WhisperOutcomes :
         LET done == TranscribeOn(Transcriber(frames.model, detected),
                                  Exists(frames.audio_path), frames.audio_path,
                                  frames.language, loaded, output, 0)
             echoed ==
                 << Echo(<<"[2/3] Transcribing audio (model: ", frames.model,
                           ")...">>),
                    Echo(<<"Language: ",
                           IF frames.language # "None" /\ frames.language # ""
                           THEN frames.language ELSE "auto-detect">>) >>
         IN  IF done.ret.kind = "raise"
             THEN /\ MainFails(echoed, done.ret.message)
                  /\ UNCHANGED <<fs, segments, made, call>>
             ELSE /\ segments' = done.ret.val
                  /\ frames' = [frames EXCEPT !.pc = "write_srt"]
                  /\ events' = events \o echoed
                         \o << Echo(<<"Transcription complete (">>
                                      \o Digits(Len(done.ret.val))
                                      \o <<" segments)">>) >>
                  /\ UNCHANGED <<fs, made, call, ret>>

\* step 3: writer.write_srt(segments, srt_path)
MainWriteSrt ==
    /\ InMain("write_srt")
    /\ \E write_text \in {"ok", "OSError"} :
        LET echoed == <<Echo(<<"[3/3] Writing subtitle files...">>)>>
        IN
          IF write_text # "ok"
          THEN /\ MainFails(echoed, <<"[Errno 28] No space left on device: ">>
                                        \o PathStr(frames.srt_path))
               /\ UNCHANGED <<fs, segments, made, call>>
          ELSE /\ fs' = WriteText(fs, frames.srt_path, SrtContent(segments))
               /\ frames' = [frames EXCEPT !.pc = "write_txt"]
               /\ events' = events \o echoed
                      \o << Echo(<<"SRT file created: ">>
                                     \o PathStr(frames.srt_path)) >>
               /\ UNCHANGED <<segments, made, call, ret>>

\* step 3: writer.write_txt(segments, txt_path)
MainWriteTxt ==
    /\ InMain("write_txt")
    /\ \E write_text \in {"ok", "OSError"} :
          IF write_text # "ok"
          THEN /\ MainFails(<<>>, <<"[Errno 28] No space left on device: ">>
                                      \o PathStr(frames.txt_path))
               /\ UNCHANGED <<fs, segments, made, call>>
          ELSE /\ fs' = WriteText(fs, frames.txt_path, TxtContent(segments))
               /\ frames' = [frames EXCEPT !.pc = "clean_up"]
               /\ events' = Append(events,
                      Echo(<<"Text file created: ">> \o PathStr(frames.txt_path)))
               /\ UNCHANGED <<segments, made, call, ret>>

\* the audio file is removed unless it is kept, and main returns
MainCleanUp ==
    /\ InMain("clean_up")
    /\ LET done == << Echo(<<"Done! Subtitle extraction complete.">>),
                      Echo(<<"Output files:">>),
                      Echo(frames.srt_path[2] \o <<" (for video playback)">>),
                      Echo(frames.txt_path[2] \o <<" (for reading)">>) >>
       IN  IF ~frames.keep_audio /\ Exists(frames.audio_path)
           THEN /\ fs' = [q \in DOMAIN fs \ {frames.audio_path} |-> fs[q]]
                /\ events' = events
                       \o << Echo(<<"Cleaned up temporary audio file">>) >>
                       \o done
           ELSE /\ UNCHANGED fs
                /\ events' = events
                       \o (IF frames.keep_audio
                           THEN << Echo(<<"Audio file kept: ">>
                                            \o PathStr(frames.audio_path)) >>
                           ELSE <<>>)
                       \o done
    /\ frames' = [frames EXCEPT !.pc = "exit"]
    /\ ret' = Exit(0)
    /\ UNCHANGED <<segments, made, call>>

NextMain ==
    \/ MainStart
    \/ MainExtractAudio
    \/ MainTranscribe
    \/ MainWriteSrt
    \/ MainWriteTxt
    \/ MainCleanUp

SpecMain == InitMain /\ [][NextMain]_vars

\* extract_audio returned in this run: it wrote the WAV file
AudioExtracted ==
    \E i \in 1..Len(events) :
        events[i].message[1] = "Audio extracted to: "

\* C22: in a run without --keep-audio in which audio extraction created the
\* WAV file, that file is not there when main exits, whichever step the run
\* ends at; in a run with --keep-audio the WAV file is there from its
\* extraction on.
C22_AudioCleanup ==
    (call.op = "main" /\ AudioExtracted) =>
        IF frames.keep_audio
        THEN Exists(frames.audio_path)
        ELSE frames.pc = "exit" => ~Exists(frames.audio_path)

====
